---- MODULE Spec2Model ----
(***************************************************************************)
(* A model of the Upstand Flask backend (server/app.py, server/teams.py). *)
(*                                                                         *)
(* Every HTTP handler is an operator  handler(s, req, env)  that maps the  *)
(* state s before the request (the Firestore collections, the module      *)
(* global db, the Socket.IO rooms), the request req (headers, path        *)
(* arguments, JSON body) and the behaviour env of the outside world       *)
(* during the request (document ids Firestore hands out, whether the      *)
(* user_analytics write raises, the reply of the LLM) to an outcome       *)
(* [status, body, st]: the HTTP status, the JSON body and the state       *)
(* after the request, events emitted included.  An action applies one     *)
(* handler to one request.                                                 *)
(*                                                                         *)
(* Python's None, a JSON null and an absent header are the value None; a   *)
(* request body that is JSON null is Null.                                 *)
(* Timestamps (datetime.utcnow().isoformat()) are the request's env.now.   *)
(* A Firestore call on a client that is held (db is not None) succeeds,    *)
(* except the user_analytics write, whose failure env.analytics_raises     *)
(* decides, and the adds of the blockers documents of a standup, of which  *)
(* add number env.blockers_raise raises (none when the env has no such     *)
(* field).                                                                 *)
(***************************************************************************)
EXTENDS Integers, Sequences, FiniteSets, TLC

None == "<None>"

\* request.get_json() of a body that is JSON null
Null == [null |-> TRUE]

(***************************************************************************)
(* Python string operations, on TLA+ strings.                              *)
(***************************************************************************)
Char(s, i) == SubSeq(s, i, i)

UpperCase == "ABCDEFGHIJKLMNOPQRSTUVWXYZ"
LowerCase == "abcdefghijklmnopqrstuvwxyz"

UpperSet == {Char(UpperCase, i) : i \in 1..Len(UpperCase)}
LowerOf ==
    [c \in UpperSet |->
        Char(LowerCase, CHOOSE i \in 1..Len(UpperCase) : Char(UpperCase, i) = c)]

lower_char(c) == IF c \in UpperSet THEN LowerOf[c] ELSE c

RECURSIVE lower(_)
lower(s) == IF s = "" THEN "" ELSE lower_char(Char(s, 1)) \o lower(SubSeq(s, 2, Len(s)))

is_space(c) == c \in {" ", "\t", "\n"}

RECURSIVE lstrip(_)
lstrip(s) == IF s # "" /\ is_space(Char(s, 1)) THEN lstrip(SubSeq(s, 2, Len(s))) ELSE s

RECURSIVE rstrip(_)
rstrip(s) ==
    IF s # "" /\ is_space(Char(s, Len(s))) THEN rstrip(SubSeq(s, 1, Len(s) - 1)) ELSE s

strip(s) == rstrip(lstrip(s))

\* Python's  kw in text  on strings
contains(text, kw) ==
    \E i \in 1..(Len(text) - Len(kw) + 1) : SubSeq(text, i, i + Len(kw) - 1) = kw

startswith(s, p) == Len(s) >= Len(p) /\ SubSeq(s, 1, Len(p)) = p

\* Python truthiness of a header, a JSON string or None
truthy(v) == v # None /\ v # ""

\* dict.get(key, default)
Get(d, k, default) == IF k \in DOMAIN d THEN d[k] ELSE default

(***************************************************************************)
(* Blocker detection (app.py 210-324).                                     *)
(***************************************************************************)
sentiment_to_score(sentiment) ==
    IF sentiment = "positive" THEN 1 ELSE IF sentiment = "negative" THEN 0 - 1 ELSE 0

keywords == <<"blocker", "stuck", "impediment", "issue", "problem", "delay", "blocked">>

detect_blockers_keyword(text) ==
    LET t == IF truthy(text) THEN text ELSE ""
        lowered == lower(t)
        found == SelectSeq(keywords, LAMBDA kw : contains(lowered, kw))
    IN  [has_blockers |-> found # <<>>,
         blockers |-> [i \in 1..Len(found) |->
                          [keyword |-> found[i], context |-> text, severity |-> "medium"]],
         severity |-> IF found # <<>> THEN "medium" ELSE "none",
         blocker_count |-> Len(found)]

\* text[:100]
ContextLen == 100
head(text) == SubSeq(text, 1, IF Len(text) < ContextLen THEN Len(text) ELSE ContextLen)

\* The value an exception stands for where a function may raise.
Raised == [raised |-> TRUE]

\* lines 284-294: the blockers of the LLM's reply
ai_blockers(ai_analysis, text) ==
    LET bs == Get(ai_analysis, "blockers", <<>>)
    IN  [i \in 1..Len(bs) |->
            [keyword |-> Get(bs[i], "keyword", ""),
             severity |-> Get(bs[i], "severity", "medium"),
             context |-> Get(bs[i], "context", head(text)),
             ai_suggestions |-> Get(bs[i], "suggestions", <<>>),
             detection_method |-> "ai"]]

\* lines 296-309: the keyword blockers the LLM's reply does not cover
missed_blockers(keyword_result, enhanced) ==
    LET kws == keyword_result.blockers
        missed == SelectSeq(kws, LAMBDA kb :
                     ~ \E j \in 1..Len(enhanced) :
                          contains(lower(enhanced[j].keyword), lower(kb.keyword)))
    IN  [i \in 1..Len(missed) |->
            [keyword |-> missed[i].keyword, context |-> missed[i].context,
             severity |-> missed[i].severity, detection_method |-> "keyword"]]

\* lines 240-319, the body of the try: Raised when a statement of it raises.
\* llm.kind: "raise" (the import or the API call raises), "badjson" (json.loads
\* raises), "nondict" (the reply is JSON but no object: .get raises), "json"
\* (llm.value is the parsed object).
detect_blockers_ai(text, keyword_result, llm) ==
    IF llm.kind # "json" THEN Raised
    ELSE LET ai_analysis == llm.value
             enhanced == ai_blockers(ai_analysis, text)
             nulls == {j \in 1..Len(enhanced) : enhanced[j].keyword = None}
             first_null == CHOOSE j \in nulls : \A k \in nulls : j <= k
             \* line 301: .lower() of a null keyword raises when the inner loop
             \* reaches it before a match ends the loop
             reaches_null(kb) ==
                 /\ nulls # {}
                 /\ \A i \in 1..(first_null - 1) :
                        ~ contains(lower(enhanced[i].keyword), lower(kb.keyword))
         IN  IF \E k \in 1..Len(keyword_result.blockers) :
                    reaches_null(keyword_result.blockers[k])
             THEN Raised
             ELSE LET all == enhanced \o missed_blockers(keyword_result, enhanced)
                  IN  [has_blockers |-> Len(all) > 0,
                       blockers |-> all,
                       severity |-> Get(ai_analysis, "overall_severity", keyword_result.severity),
                       blocker_count |-> Len(all),
                       ai_analysis |-> Get(ai_analysis, "analysis", ""),
                       sentiment |-> Get(ai_analysis, "sentiment", "neutral"),
                       sentiment_score |->
                           sentiment_to_score(Get(ai_analysis, "sentiment", "neutral"))]

detect_blockers_nofallback(text, use_ai, openai_key, llm) ==
    IF ~ truthy(text)
    THEN [has_blockers |-> FALSE, blockers |-> <<>>, severity |-> "none", blocker_count |-> 0]
    ELSE IF ~ use_ai \/ ~ openai_key THEN detect_blockers_keyword(text)
         ELSE detect_blockers_ai(text, detect_blockers_keyword(text), llm)

detect_blockers(text, use_ai, openai_key, llm) ==
    IF ~ truthy(text)
    THEN [has_blockers |-> FALSE, blockers |-> <<>>, severity |-> "none", blocker_count |-> 0]
    ELSE LET keyword_result == detect_blockers_keyword(text)
         IN  IF ~ use_ai \/ ~ openai_key THEN keyword_result
             ELSE LET r == detect_blockers_ai(text, keyword_result, llm)
                  IN  IF r = Raised THEN keyword_result ELSE r

(***************************************************************************)
(* The state.                                                              *)
(***************************************************************************)
VARIABLES
    db,                      \* app.py's global db: TRUE a client, FALSE None
    openai_key,              \* whether OPENAI_API_KEY is set
    teams,                   \* Firestore collections: document id -> document
    sprints,
    tasks,
    blockers,
    standups,
    retrospectives,
    retrospective_feedback,
    blocker_resolutions,
    blocker_escalations,
    rooms,                   \* Socket.IO: client sid -> the rooms it is in
    last,                    \* the last request or socket event and its outcome
    probe,                   \* the last call of a pure function and its result
    inflight                 \* teams.py: the request each user has between its read
                             \* of the team document and its write, and the last
                             \* answer of success each user got

vars == <<db, openai_key, teams, sprints, tasks, blockers, standups, retrospectives,
          retrospective_feedback, blocker_resolutions, blocker_escalations, rooms, last,
          probe, inflight>>

Clients == {"sidA", "sidB"}

\* The state a handler starts from: nothing emitted or written yet.  writes lists
\* the Firestore writes of the request in order; the collections no handler
\* modelled here reads back (user_analytics, blocker_updates,
\* blocker_ai_analyses, sprint_comments) are kept there only.
\* full: Firestore was asked for more documents than the model has ids for.
Cur ==
    [db |-> db, openai_key |-> openai_key, teams |-> teams, sprints |-> sprints,
     tasks |-> tasks, blockers |-> blockers, standups |-> standups,
     retrospectives |-> retrospectives,
     retrospective_feedback |-> retrospective_feedback,
     blocker_resolutions |-> blocker_resolutions,
     blocker_escalations |-> blocker_escalations, rooms |-> rooms,
     emitted |-> <<>>, writes |-> <<>>, full |-> FALSE]

Ids(coll) ==
    CASE coll = "teams" -> {"t1", "t2", "t3"}
      [] coll = "sprints" -> {"sp1"}
      [] coll = "tasks" -> {"k1", "k2"}
      [] coll = "blockers" -> {"b1", "b2", "b3"}
      [] coll = "standups" -> {"s1"}
      [] coll = "retrospectives" -> {"r1"}
      [] coll = "retrospective_feedback" -> {"f1"}
      [] coll = "blocker_resolutions" -> {"n1", "n2"}
      [] coll = "blocker_escalations" -> {"e1"}
      [] OTHER -> {"x"}

Logged == {"user_analytics", "blocker_updates", "blocker_ai_analyses", "test",
           "sprint_comments"}

\* collection.add(doc): Firestore picks an id no document of the collection has.
add(s, coll, doc) ==
    IF coll \in Logged
    THEN [s EXCEPT !.writes = Append(@, [op |-> "add", coll |-> coll, id |-> "x", doc |-> doc])]
    ELSE LET free == Ids(coll) \ DOMAIN s[coll]
             id == CHOOSE i \in free : TRUE
         IN  IF free = {} THEN [s EXCEPT !.full = TRUE]
             ELSE [s EXCEPT ![coll] = (id :> doc) @@ @,
                            !.writes = Append(@, [op |-> "add", coll |-> coll,
                                                  id |-> id, doc |-> doc])]

\* the id of the document the last add of s created
new_id(s) == IF s.full THEN None ELSE s.writes[Len(s.writes)].id

exists(s, coll, id) == id \in DOMAIN s[coll]

\* document.update(fields): the fields named are set, the others kept.  The log
\* keeps the document as it was.
update(s, coll, id, fields) ==
    [s EXCEPT ![coll] = [@ EXCEPT ![id] = fields @@ @],
              !.writes = Append(@, [op |-> "update", coll |-> coll, id |-> id,
                                    doc |-> fields, before |-> s[coll][id]])]

\* document.delete()
delete(s, coll, id) ==
    [s EXCEPT ![coll] = [i \in (DOMAIN @) \ {id} |-> @[i]],
              !.writes = Append(@, [op |-> "delete", coll |-> coll, id |-> id,
                                    before |-> s[coll][id]])]

\* socketio.emit(event, data, room=room): to every client in the room now
emit(s, event, room, data) ==
    [s EXCEPT !.emitted = Append(@, [event |-> event, room |-> room, data |-> data,
                                     to |-> {c \in Clients : room \in s.rooms[c]}])]

\* The outcome of a request: jsonify(body), status.
Reply(s, status, body) == [status |-> status, body |-> body, st |-> s]

team_room(company_id, team_id) == "team_" \o company_id \o "_" \o team_id
sprint_room(sprint_id) == "sprint_" \o sprint_id

(***************************************************************************)
(* Authentication and analytics (app.py 157-205).                          *)
(***************************************************************************)
\* auth.verify_id_token: the decoded token, or Raised
verify_id_token(token) ==
    CASE token = "tok-u1" -> [uid |-> "u1", email |-> "u1@x.io", name |-> "Una"]
      [] token = "tok-u2" -> [uid |-> "u2", email |-> "u2@x.io"]
      [] token = "tok-u3" -> [uid |-> "u3"]
      [] OTHER -> Raised

\* The request context require_auth builds (lines 191-201), or Raised.
auth_context(req) ==
    LET id_token == IF startswith(req.authorization, "Bearer ")
                    THEN SubSeq(req.authorization, 8, Len(req.authorization))
                    ELSE req.authorization
        decoded_token == verify_id_token(id_token)
    IN  IF decoded_token = Raised THEN Raised
        ELSE [user_id |-> decoded_token.uid,
              user_name |-> Get(decoded_token, "name", ""),
              user_email |-> Get(decoded_token, "email", ""),
              company_id |-> IF req.company = None THEN "default" ELSE req.company]

NoContext == [user_id |-> None, user_name |-> "", user_email |-> "", company_id |-> "default"]

\* A require_auth that lets the handler run whatever the token is.
require_auth_open(s, req) ==
    LET c == auth_context(req)
    IN  [ok |-> TRUE, ctx |-> IF c = Raised THEN NoContext ELSE c,
         reply |-> Reply(s, 401, [error |-> "Invalid authorization token"])]

\* require_auth: whether the wrapped handler is called, the request context it is
\* called in, and the reply when it is not.
require_auth(s, req) ==
    IF ~ truthy(req.authorization)
    THEN [ok |-> FALSE, ctx |-> NoContext,
          reply |-> Reply(s, 401, [error |-> "No authorization token provided"])]
    ELSE LET c == auth_context(req)
         IN  IF c = Raised
             THEN [ok |-> FALSE, ctx |-> NoContext,
                   reply |-> Reply(s, 401, [error |-> "Invalid authorization token",
                                            details |-> "str(e)"])]
             ELSE [ok |-> TRUE, ctx |-> c, reply |-> Reply(s, 200, <<>>)]

\* str.replace(old, ""): every occurrence of old, left to right
RECURSIVE remove_all(_, _)
remove_all(str, old) ==
    IF ~ contains(str, old) THEN str
    ELSE LET i == CHOOSE j \in 1..Len(str) :
                     /\ SubSeq(str, j, j + Len(old) - 1) = old
                     /\ \A k \in 1..(j - 1) : SubSeq(str, k, k + Len(old) - 1) # old
         IN  SubSeq(str, 1, i - 1) \o remove_all(SubSeq(str, i + Len(old), Len(str)), old)

\* teams.py verify_token (lines 12-29): as require_auth, for the routes of the
\* blueprint.  The context is the decoded token; no company is read.
verify_token(s, req) ==
    IF ~ truthy(req.authorization)
    THEN [ok |-> FALSE, ctx |-> NoContext,
          reply |-> Reply(s, 401, [error |-> "No token provided"])]
    ELSE LET decoded_token == verify_id_token(remove_all(req.authorization, "Bearer "))
         IN  IF decoded_token = Raised
             THEN [ok |-> FALSE, ctx |-> NoContext,
                   reply |-> Reply(s, 401, [error |-> "Invalid token"])]
             ELSE [ok |-> TRUE,
                   ctx |-> [user_id |-> decoded_token.uid,
                            user_name |-> Get(decoded_token, "name", ""),
                            user_email |-> Get(decoded_token, "email", "Unknown"),
                            company_id |-> None],
                   reply |-> Reply(s, 200, <<>>)]

\* A track_user_action that lets the exception of the write escape.
track_user_action_raising(s, ctx, env, action, team_id) ==
    IF ~ s.db THEN s
    ELSE IF env.analytics_raises THEN Raised
    ELSE add(s, "user_analytics",
             [user_id |-> ctx.user_id, company_id |-> ctx.company_id,
              team_id |-> team_id, action |-> action])

\* track_user_action: the state after it.  It never raises.
track_user_action(s, ctx, env, action, team_id) ==
    IF ~ s.db THEN s
    ELSE IF env.analytics_raises THEN s
    ELSE add(s, "user_analytics",
             [user_id |-> ctx.user_id, company_id |-> ctx.company_id,
              team_id |-> team_id, action |-> action])

(***************************************************************************)
(* First-class blocker routes (app.py 1832-1990).                          *)
(***************************************************************************)
\* lines 1850-1864: the blocker is marked resolved and its team's room is told
mark_resolved(s, req, env, ctx) ==
    LET blocker_id == req.args.blocker_id
        blocker == s.blockers[blocker_id]
        data == IF req.json = Null THEN <<>> ELSE req.json
        got == Get(data, "resolution", None)
        resolution == strip(IF truthy(got) THEN got ELSE "")
        upd == [status |-> "resolved", resolved_at |-> env.now,
                resolved_by |-> ctx.user_email]
        s1 == update(s, "blockers", blocker_id,
                     IF resolution # "" THEN [resolution |-> resolution] @@ upd ELSE upd)
        s2 == emit(s1, "blocker_resolved",
                   team_room(ctx.company_id, Get(blocker, "team_id", "None")),
                   [blocker_id |-> blocker_id, resolved_by |-> ctx.user_email,
                    team_id |-> Get(blocker, "team_id", None)])
    IN  Reply(s2, 200, [success |-> TRUE, message |-> "Blocker resolved"])

\* A resolve_blocker_v2 that does not compare the blocker's company.
resolve_blocker_v2_unscoped(s, req, env, ctx) ==
    IF ~ s.db THEN Reply(s, 500, [success |-> FALSE, error |-> "Failed to resolve blocker"])
    ELSE IF ~ exists(s, "blockers", req.args.blocker_id)
    THEN Reply(s, 404, [error |-> "Blocker not found"])
    ELSE mark_resolved(s, req, env, ctx)

resolve_blocker_v2(s, req, env, ctx) ==
    LET blocker_id == req.args.blocker_id
    IN  \* db is None: db.collection raises, and the except clause answers
        IF ~ s.db
        THEN Reply(s, 500, [success |-> FALSE, error |-> "Failed to resolve blocker"])
        ELSE IF ~ exists(s, "blockers", blocker_id)
        THEN Reply(s, 404, [error |-> "Blocker not found"])
        ELSE IF Get(s.blockers[blocker_id], "company_id", None) # ctx.company_id
        THEN Reply(s, 403, [error |-> "Access denied"])
        ELSE mark_resolved(s, req, env, ctx)

update_blocker_priority_v2(s, req, env, ctx) ==
    LET company_id == ctx.company_id
        data == IF req.json = Null THEN <<>> ELSE req.json
        new_priority == Get(data, "priority", None)
        blocker_id == req.args.blocker_id
        failed == [success |-> FALSE, error |-> "Failed to update priority"]
    IN  IF new_priority \notin {"high", "medium", "low"}
        THEN Reply(s, 400, [error |-> "Invalid priority"])
        ELSE IF ~ s.db THEN Reply(s, 500, failed)
        ELSE IF ~ exists(s, "blockers", blocker_id)
        THEN Reply(s, 404, [error |-> "Blocker not found"])
        ELSE IF Get(s.blockers[blocker_id], "company_id", None) # company_id
        THEN Reply(s, 403, [error |-> "Access denied"])
        ELSE LET s1 == update(s, "blockers", blocker_id,
                              [severity |-> new_priority, updated_at |-> env.now])
                 s2 == add(s1, "blocker_updates",
                           [blocker_id |-> blocker_id, new_priority |-> new_priority,
                            updated_by |-> ctx.user_email, company_id |-> company_id])
             IN  Reply(s2, 200, [success |-> TRUE, message |-> "Priority updated"])


analyze_blocker_v2(s, req, env, ctx) ==
    LET company_id == ctx.company_id
        blocker_id == req.args.blocker_id
        failed == [success |-> FALSE, error |-> "Failed to analyze blocker"]
    IN  IF ~ s.openai_key THEN Reply(s, 503, [error |-> "AI analysis not available"])
        ELSE IF ~ s.db THEN Reply(s, 500, failed)
        ELSE IF ~ exists(s, "blockers", blocker_id)
        THEN Reply(s, 404, [error |-> "Blocker not found"])
        ELSE IF Get(s.blockers[blocker_id], "company_id", None) # company_id
        THEN Reply(s, 403, [error |-> "Access denied"])
        ELSE IF env.llm.kind # "json" THEN Reply(s, 500, failed)
        ELSE LET analysis == env.llm.value
                 s1 == update(s, "blockers", blocker_id,
                              [ai_analysis |-> Get(analysis, "analysis", ""),
                               ai_suggestions |-> Get(analysis, "suggestions", <<>>),
                               updated_at |-> env.now])
                 s2 == add(s1, "blocker_ai_analyses",
                           [blocker_id |-> blocker_id, analysis |-> analysis,
                            company_id |-> company_id])
             IN  Reply(s2, 200, [success |-> TRUE, analysis |-> analysis])


(***************************************************************************)
(* Standups and retrospectives (app.py 940-1076, 2105-2231).  The fields   *)
(* of a document that no handler modelled here reads (the yesterday and    *)
(* today texts, mood, the sentiment analysis, the retrospective's lists)   *)
(* are left out of it, and so are the team summary and the analysis of     *)
(* the response.                                                           *)
(***************************************************************************)
\* A blockers_to_create that makes the generic document whatever was detected.
blockers_to_create_generic(blockers_text, blocker_analysis, team_id, ctx, env) ==
    << [keyword |-> "blocker", context |-> blockers_text, severity |-> "medium",
        team_id |-> team_id, company_id |-> ctx.company_id,
        user_id |-> ctx.user_id, user_email |-> ctx.user_email,
        status |-> "active", created_at |-> env.now] >>

\* lines 993-1023: the blockers documents of a standup
blockers_to_create(blockers_text, blocker_analysis, team_id, ctx, env) ==
    LET detected == blocker_analysis.blockers
        or(v, w) == IF truthy(v) THEN v ELSE w
        base == [team_id |-> team_id, company_id |-> ctx.company_id,
                 user_id |-> ctx.user_id, user_email |-> ctx.user_email,
                 status |-> "active", created_at |-> env.now]
    IN  IF detected # <<>>
        THEN [i \in 1..Len(detected) |->
                 [keyword |-> or(Get(detected[i], "keyword", None), "blocker"),
                  context |-> or(Get(detected[i], "context", None), blockers_text),
                  severity |-> Get(detected[i], "severity", "medium")] @@ base]
        ELSE << [keyword |-> "blocker", context |-> blockers_text,
                 severity |-> "medium"] @@ base >>

\* lines 1025-1036: one add and one emit per document, until an add raises
\* (add number raises_at, none when 0): the except of line 1035 ends the loop
RECURSIVE add_blockers(_, _, _, _, _)
add_blockers(s, docs, team_id, ctx, raises_at) ==
    IF docs = <<>> \/ s.full \/ raises_at = 1 THEN s
    ELSE LET s1 == add(s, "blockers", Head(docs))
             s2 == emit(s1, "blocker_detected", team_room(ctx.company_id, team_id),
                        [blocker_id |-> new_id(s1), team_id |-> team_id,
                         userEmail |-> ctx.user_email, keyword |-> Head(docs).keyword,
                         severity |-> Head(docs).severity])
         IN  IF s1.full THEN s1
             ELSE add_blockers(s2, Tail(docs), team_id, ctx,
                               IF raises_at = 0 THEN 0 ELSE raises_at - 1)

submit_standup(s, req, env, ctx) ==
    LET company_id == ctx.company_id
        data == req.json
        team_id == Get(data, "team_id", None)
        caught == [error |-> "str(e)"]
    IN  IF data = Null THEN Reply(s, 500, caught)
        ELSE IF ~ truthy(team_id) THEN Reply(s, 400, [error |-> "team_id is required"])
        ELSE LET s1 == track_user_action(s, ctx, env, "submit_standup", team_id)
             IN  IF s1 = Raised \/ ~ s.db THEN Reply(s, 500, caught)
                 ELSE IF ~ exists(s1, "teams", team_id)
                         \/ Get(s1.teams[team_id], "company_id", None) # company_id
                 THEN Reply(s1, 403, [error |-> "Team not found or access denied"])
                 ELSE LET blockers_text == Get(data, "blockers", "")
                          blocker_analysis ==
                              detect_blockers(blockers_text, TRUE, s.openai_key, env.llm)
                          standup_data ==
                              [user_id |-> ctx.user_id, user_email |-> ctx.user_email,
                               user_name |-> ctx.user_name, team_id |-> team_id,
                               company_id |-> company_id, date |-> env.now,
                               blockers |-> blockers_text,
                               blocker_analysis |-> blocker_analysis,
                               created_at |-> env.now]
                          s2 == add(s1, "standups", standup_data)
                          s3 == IF truthy(blockers_text) /\ strip(blockers_text) # ""
                                THEN add_blockers(s2,
                                         blockers_to_create(blockers_text, blocker_analysis,
                                                            team_id, ctx, env),
                                         team_id, ctx, Get(env, "blockers_raise", 0))
                                ELSE s2
                          room == team_room(company_id, team_id)
                          s4 == emit(s3, "standup_update",  room,
                                     [type |-> "new_standup", standup |-> standup_data])
                          s5 == emit(s4, "standup_submitted", room,
                                     [user_email |-> ctx.user_email, team_id |-> team_id,
                                      has_blockers |-> blocker_analysis.has_blockers])
                      IN  Reply(s5, 200,
                                [success |-> TRUE,
                                 message |-> "Standup submitted successfully",
                                 blocker_analysis |-> blocker_analysis])


\* lines 2125-2143: the retrospective document is added
add_retrospective(s, req, env, ctx) ==
    LET team_id == req.json.team_id
        s1 == add(s, "retrospectives",
                  [team_id |-> team_id, company_id |-> ctx.company_id,
                   sprint_name |-> Get(req.json, "sprint_name", ""),
                   created_by |-> ctx.user_id, created_at |-> env.now])
    IN  Reply(s1, 200, [success |-> TRUE, retrospective_id |-> new_id(s1),
                        message |-> "Retrospective created successfully"])

\* A create_retrospective that does not look the team up.
create_retrospective_unchecked(s, req, env, ctx) ==
    LET data == req.json
        team_id == Get(data, "team_id", None)
        failed == [success |-> FALSE, error |-> "Failed to create retrospective"]
    IN  IF data = Null THEN Reply(s, 500, failed)
        ELSE IF ~ truthy(team_id) THEN Reply(s, 400, [error |-> "team_id is required"])
        ELSE LET s1 == track_user_action(s, ctx, env, "create_retrospective", team_id)
             IN  IF s1 = Raised \/ ~ s.db THEN Reply(s, 500, failed)
                 ELSE add_retrospective(s1, req, env, ctx)

create_retrospective(s, req, env, ctx) ==
    LET company_id == ctx.company_id
        data == req.json
        team_id == Get(data, "team_id", None)
        failed == [success |-> FALSE, error |-> "Failed to create retrospective"]
    IN  IF data = Null THEN Reply(s, 500, failed)
        ELSE IF ~ truthy(team_id) THEN Reply(s, 400, [error |-> "team_id is required"])
        ELSE LET s1 == track_user_action(s, ctx, env, "create_retrospective", team_id)
             IN  IF s1 = Raised \/ ~ s.db THEN Reply(s, 500, failed)
                 ELSE IF ~ exists(s1, "teams", team_id)
                         \/ Get(s1.teams[team_id], "company_id", None) # company_id
                 THEN Reply(s1, 403, [error |-> "Team not found or access denied"])
                 ELSE add_retrospective(s1, req, env, ctx)


submit_retrospective_feedback(s, req, env, ctx) ==
    LET company_id == ctx.company_id
        data == req.json
        team_id == Get(data, "team_id", None)
        failed == [success |-> FALSE, error |-> "Failed to submit feedback"]
    IN  IF ~ s.db
        THEN Reply(s, 503, [success |-> FALSE, error |-> "Database connection not available"])
        ELSE IF data = Null THEN Reply(s, 500, failed)
        ELSE IF ~ truthy(team_id) THEN Reply(s, 400, [error |-> "team_id is required"])
        ELSE LET s1 == track_user_action(s, ctx, env, "submit_retrospective_feedback",
                                         team_id)
             IN  IF s1 = Raised THEN Reply(s, 500, failed)
                 ELSE IF ~ exists(s1, "teams", team_id)
                         \/ Get(s1.teams[team_id], "company_id", None) # company_id
                 THEN Reply(s1, 403, [error |-> "Team not found or access denied"])
                 ELSE LET category == Get(data, "category", None)
                          feedback == Get(data, "feedback", None)
                          anonymous == Get(data, "anonymous", TRUE)
                          feedback_data ==
                              [team_id |-> team_id, company_id |-> company_id,
                               category |-> category, feedback |-> feedback,
                               anonymous |-> anonymous,
                               created_by |-> IF Get(data, "anonymous", FALSE) = FALSE
                                              THEN ctx.user_id ELSE None,
                               created_at |-> env.now]
                      IN  \* lines 2192-2200: .replace, .lower and len of a null raise
                          IF category = None \/ feedback = None THEN Reply(s1, 500, failed)
                          ELSE LET s2 == add(s1, "retrospective_feedback", feedback_data)
                                   s3 == emit(s2, "retrospective_feedback_added",
                                              team_room(company_id, team_id),
                                              [feedback_id |-> new_id(s2), team_id |-> team_id,
                                               category |-> category,
                                               anonymous |-> anonymous])
                               IN  Reply(s3, 200,
                                         [success |-> TRUE, feedback_id |-> new_id(s2),
                                          message |-> "Feedback submitted successfully"])


(***************************************************************************)
(* Sprints and tasks (app.py 1456-1633, 1641-1726, 1773-1799).  A JSON     *)
(* number is [int |-> n], a JSON string that a number is expected in is    *)
(* [str |-> s], and null is Null.                                          *)
(***************************************************************************)
Digits == "0123456789"
is_digit(c) == \E d \in 1..Len(Digits) : Char(Digits, d) = c
digit_value(c) == (CHOOSE d \in 1..Len(Digits) : Char(Digits, d) = c) - 1

RECURSIVE int_digits(_)
int_digits(t) ==
    IF t = "" THEN 0
    ELSE 10 * int_digits(SubSeq(t, 1, Len(t) - 1)) + digit_value(Char(t, Len(t)))

\* Python's int(v): [ok |-> TRUE, value |-> n], or ok FALSE where it raises
int(v) ==
    IF "int" \in DOMAIN v THEN [ok |-> TRUE, value |-> v.int]
    ELSE IF "str" \in DOMAIN v
    THEN LET t == strip(v.str)
             signed == t # "" /\ Char(t, 1) \in {"-", "+"}
             ds == IF signed THEN SubSeq(t, 2, Len(t)) ELSE t
         IN  IF ds # "" /\ \A i \in 1..Len(ds) : is_digit(Char(ds, i))
             THEN [ok |-> TRUE,
                   value |-> IF signed /\ Char(t, 1) = "-" THEN 0 - int_digits(ds)
                             ELSE int_digits(ds)]
             ELSE [ok |-> FALSE, value |-> 0]
    ELSE [ok |-> FALSE, value |-> 0]

\* init_firestore (lines 83-118): the client, tested by one write, or None
init_firestore(s, env) ==
    IF env.firestore_up
    THEN add([s EXCEPT !.db = TRUE], "test", [test |-> TRUE, timestamp |-> env.now])
    ELSE [s EXCEPT !.db = FALSE]

create_sprint(s, req, env, ctx) ==
    LET s0 == IF s.db THEN s ELSE init_firestore(s, env)
        data == req.json
        company_id == ctx.company_id
        team_id == Get(data, "team_id", None)
        failed == [success |-> FALSE, error |-> "Failed to create sprint"]
    IN  IF ~ s0.db
        THEN Reply(s0, 503, [success |-> FALSE, error |-> "Database connection failed"])
        ELSE IF data = Null THEN Reply(s0, 500, failed)
        ELSE IF ~ (truthy(team_id) /\ truthy(Get(data, "name", None))
                   /\ truthy(Get(data, "startDate", None))
                   /\ truthy(Get(data, "endDate", None)))
        THEN Reply(s0, 400,
                   [success |-> FALSE,
                    error |-> "Missing required fields: team_id, name, startDate, endDate"])
        ELSE LET s1 == track_user_action(s0, ctx, env, "create_sprint", team_id)
                 sprint_data ==
                     [team_id |-> team_id, company_id |-> company_id,
                      name |-> data.name, start_date |-> data.startDate,
                      end_date |-> data.endDate, created_by |-> ctx.user_id,
                      created_at |-> env.now, status |-> "active"]
             IN  IF s1 = Raised THEN Reply(s0, 500, failed)
                 ELSE LET s2 == add(s1, "sprints", sprint_data)
                          reported == [id |-> new_id(s2)] @@ sprint_data
                          s3 == emit(s2, "sprint_created", team_room(company_id, team_id),
                                     [sprint |-> reported, team_id |-> team_id])
                      IN  Reply(s3, 200, [success |-> TRUE, sprint |-> reported])

\* lines 1562-1608: the final analytics of a sprint, from its tasks as they are
RECURSIVE Sum(_, _)
Sum(f, S) ==
    IF S = {} THEN 0
    ELSE LET x == CHOOSE y \in S : TRUE IN f[x] + Sum(f, S \ {x})

sprint_tasks(s, sprint_id) ==
    {k \in DOMAIN s.tasks : Get(s.tasks[k], "sprint_id", None) = sprint_id}

final_analytics(s, sprint_id) ==
    LET ts == sprint_tasks(s, sprint_id)
        estimate(k) == Get(s.tasks[k], "estimate", [int |-> 1])
        status(k) == Get(s.tasks[k], "status", "todo")
        points == [k \in ts |-> estimate(k).int]
        total_story_points == Sum(points, ts)
        completed_story_points == Sum(points, {k \in ts : status(k) = "done"})
        count(st) == Cardinality({k \in ts : status(k) = st})
    IN  \* an estimate that is no number: the addition raises
        IF \E k \in ts : "int" \notin DOMAIN estimate(k) THEN Raised
        ELSE [total_story_points |-> total_story_points,
              completed_story_points |-> completed_story_points,
              \* round(completed / total * 100, 1), in tenths of a percent
              completion_tenths |->
                  IF total_story_points > 0
                  THEN (2000 * completed_story_points + total_story_points)
                          \div (2 * total_story_points)
                  ELSE 0,
              task_counts |-> [todo |-> count("todo"), in_progress |-> count("in_progress"),
                               done |-> count("done")],
              total_tasks |-> Cardinality(ts),
              velocity |-> completed_story_points]

\* A complete_sprint that leaves a sprint already completed as it is.
complete_sprint_once(s, req, env, ctx) ==
    IF ~ s.db
    THEN Reply(s, 503, [success |-> FALSE, error |-> "Database connection not available"])
    ELSE IF ~ exists(s, "sprints", req.args.sprint_id)
    THEN Reply(s, 404, [error |-> "Sprint not found"])
    ELSE IF final_analytics(s, req.args.sprint_id) = Raised
    THEN Reply(s, 500, [success |-> FALSE, error |-> "Failed to complete sprint"])
    ELSE Reply(IF Get(s.sprints[req.args.sprint_id], "status", None) = "completed" THEN s
               ELSE update(s, "sprints", req.args.sprint_id,
                           [status |-> "completed", completed_at |-> env.now,
                            final_analytics |-> final_analytics(s, req.args.sprint_id)]),
               200, [success |-> TRUE, message |-> "Sprint completed successfully"])

complete_sprint(s, req, env, ctx) ==
    LET sprint_id == req.args.sprint_id
        failed == [success |-> FALSE, error |-> "Failed to complete sprint"]
    IN  IF ~ s.db
        THEN Reply(s, 503, [success |-> FALSE, error |-> "Database connection not available"])
        ELSE LET s1 == track_user_action(s, ctx, env, "complete_sprint", None)
             IN  IF s1 = Raised THEN Reply(s, 500, failed)
                 ELSE IF ~ exists(s1, "sprints", sprint_id)
                 THEN Reply(s1, 404, [error |-> "Sprint not found"])
                 ELSE LET sprint_data == s1.sprints[sprint_id]
                          analytics == final_analytics(s1, sprint_id)
                      IN  IF analytics = Raised THEN Reply(s1, 500, failed)
                          ELSE LET s2 == update(s1, "sprints", sprint_id,
                                                [status |-> "completed",
                                                 completed_at |-> env.now,
                                                 final_analytics |-> analytics])
                                   s3 == emit(s2, "sprint_completed",
                                              team_room(Get(sprint_data, "company_id", "None"),
                                                        Get(sprint_data, "team_id", "None")),
                                              [sprint_id |-> sprint_id,
                                               sprint_name |-> Get(sprint_data, "name", "Sprint"),
                                               final_analytics |-> analytics])
                               IN  Reply(s3, 200,
                                         [success |-> TRUE,
                                          message |-> "Sprint completed successfully",
                                          final_analytics |-> analytics])

create_task(s, req, env, ctx) ==
    LET data == req.json
        failed == [success |-> FALSE, error |-> "Failed to create task"]
    IN  IF data = Null THEN Reply(s, 500, failed)
        ELSE LET s1 == track_user_action(s, ctx, env, "create_task", None)
                 estimate == int(Get(data, "estimate", [int |-> 1]))
                 task_data ==
                     [sprint_id |-> Get(data, "sprint_id", None),
                      company_id |-> ctx.company_id,
                      title |-> Get(data, "title", None),
                      assignee |-> Get(data, "assignee", "Unassigned"),
                      status |-> Get(data, "status", "todo"),
                      estimate |-> [int |-> estimate.value],
                      created_by |-> ctx.user_id, created_at |-> env.now]
             IN  IF s1 = Raised THEN Reply(s, 500, failed)
                 ELSE IF ~ estimate.ok THEN Reply(s1, 500, failed)
                 ELSE IF ~ (truthy(task_data.sprint_id) /\ truthy(task_data.title))
                 THEN Reply(s1, 400, [error |-> "Missing required fields"])
                 ELSE IF ~ s.db THEN Reply(s1, 500, failed)
                 ELSE LET s2 == add(s1, "tasks", task_data)
                          reported == [id |-> new_id(s2)] @@ task_data
                          s3 == emit(s2, "task_created", sprint_room(task_data.sprint_id),
                                     [task |-> reported, sprint_id |-> task_data.sprint_id])
                      IN  Reply(s3, 200, [success |-> TRUE, task |-> reported])

\* lines 1701-1704: the fields of the body that update_task copies
allowed_fields == {"title", "assignee", "status", "estimate"}


\* An update_task that copies every field of the body.
update_task_any(s, req, env, ctx) ==
    LET data == req.json
        task_id == req.args.task_id
        failed == [success |-> FALSE, error |-> "Failed to update task"]
    IN  IF data = Null \/ ~ s.db THEN Reply(s, 500, failed)
        ELSE IF ~ exists(s, "tasks", task_id)
        THEN Reply(track_user_action(s, ctx, env, "update_task", None),
                   404, [error |-> "Task not found"])
        ELSE LET s2 == update(track_user_action(s, ctx, env, "update_task", None),
                              "tasks", task_id, data @@ [updated_at |-> env.now])
                 updated_task == [id |-> task_id] @@ s2.tasks[task_id]
             IN  Reply(emit(s2, "task_updated", sprint_room(updated_task.sprint_id),
                            [task |-> updated_task, sprint_id |-> updated_task.sprint_id,
                             status_change |->
                                [old_status |-> Get(s.tasks[task_id], "status", None),
                                 new_status |-> Get(data, "status", None)]]),
                       200, [success |-> TRUE, task |-> updated_task])
update_task(s, req, env, ctx) ==
    LET data == req.json
        task_id == req.args.task_id
        failed == [success |-> FALSE, error |-> "Failed to update task"]
    IN  IF data = Null THEN Reply(s, 500, failed)
        ELSE LET s1 == track_user_action(s, ctx, env, "update_task", None)
             IN  IF s1 = Raised \/ ~ s.db THEN Reply(s, 500, failed)
                 ELSE IF ~ exists(s1, "tasks", task_id)
                 THEN Reply(s1, 404, [error |-> "Task not found"])
                 ELSE LET old_status == Get(s1.tasks[task_id], "status", None)
                          update_data ==
                              [f \in allowed_fields \cap DOMAIN data |-> data[f]]
                              @@ [updated_at |-> env.now]
                          s2 == update(s1, "tasks", task_id, update_data)
                          updated_task == [id |-> task_id] @@ s2.tasks[task_id]
                      IN  \* updated_task['sprint_id'] raises for a task without one
                          IF "sprint_id" \notin DOMAIN updated_task
                          THEN Reply(s2, 500, failed)
                          ELSE LET s3 == emit(s2, "task_updated",
                                              sprint_room(updated_task.sprint_id),
                                              [task |-> updated_task,
                                               sprint_id |-> updated_task.sprint_id,
                                               status_change |->
                                                  [old_status |-> old_status,
                                                   new_status |-> Get(data, "status", None)]])
                               IN  Reply(s3, 200, [success |-> TRUE, task |-> updated_task])


\* A delete_task that emits before it looks the task up.
delete_task_early(s, req, env, ctx) ==
    LET task_id == req.args.task_id
        s0 == emit(s, "task_deleted", sprint_room(None),
                   [task_id |-> task_id, sprint_id |-> None])
    IN  IF ~ s.db THEN Reply(s, 500, [success |-> FALSE, error |-> "Failed to delete task"])
        ELSE IF ~ exists(s, "tasks", task_id)
        THEN Reply(s0, 404, [error |-> "Task not found"])
        ELSE Reply(delete(track_user_action(s0, ctx, env, "delete_task", None),
                          "tasks", task_id),
                   200, [success |-> TRUE, message |-> "Task deleted"])
delete_task(s, req, env, ctx) ==
    LET task_id == req.args.task_id
        failed == [success |-> FALSE, error |-> "Failed to delete task"]
    IN  IF ~ s.db THEN Reply(s, 500, failed)
        ELSE IF ~ exists(s, "tasks", task_id)
        THEN Reply(s, 404, [error |-> "Task not found"])
        ELSE LET sprint_id == Get(s.tasks[task_id], "sprint_id", None)
                 s1 == track_user_action(s, ctx, env, "delete_task", None)
             IN  IF s1 = Raised THEN Reply(s, 500, failed)
                 ELSE LET s2 == delete(s1, "tasks", task_id)
                          s3 == emit(s2, "task_deleted", sprint_room(sprint_id),
                                     [task_id |-> task_id, sprint_id |-> sprint_id])
                      IN  Reply(s3, 200, [success |-> TRUE, message |-> "Task deleted"])

(***************************************************************************)
(* Teams (app.py 896-937).                                                 *)
(***************************************************************************)
create_team(s, req, env, ctx) ==
    LET data == req.json
        team_name == strip(Get(data, "name", ""))
        failed == [success |-> FALSE, error |-> "Failed to create team"]
    IN  \* a null body, or a name that is null: .get or .strip raises
        IF data = Null \/ Get(data, "name", "") = None THEN Reply(s, 500, failed)
        ELSE IF team_name = ""
        THEN Reply(s, 400, [success |-> FALSE, error |-> "Team name is required"])
        ELSE LET s1 == track_user_action(s, ctx, env, "create_team", None)
                 team_doc == [name |-> team_name,
                              description |-> Get(data, "description", ""),
                              owner_id |-> ctx.user_id, company_id |-> ctx.company_id,
                              members |-> <<ctx.user_id>>,
                              member_roles |-> (ctx.user_id :> "OWNER"),
                              created_at |-> env.now, updated_at |-> env.now]
             IN  IF s1 = Raised \/ ~ s.db THEN Reply(s, 500, failed)
                 ELSE LET s2 == add(s1, "teams", team_doc)
                      IN  Reply(s2, 200,
                                [success |-> TRUE,
                                 team |-> [id |-> new_id(s2), name |-> team_name,
                                           role |-> "OWNER", member_count |-> 1,
                                           owner_name |-> ctx.user_email,
                                           owner_id |-> ctx.user_id,
                                           company_id |-> ctx.company_id,
                                           created_at |-> team_doc.created_at,
                                           description |-> team_doc.description]])

\* a map without one key (DELETE_FIELD of map.key)
without(map, key) == [k \in (DOMAIN map) \ {key} |-> map[k]]

\* firestore.ArrayUnion([x]) and firestore.ArrayRemove([x]) on an array
ArrayUnion(array, x) ==
    IF \E i \in 1..Len(array) : array[i] = x THEN array ELSE Append(array, x)
ArrayRemove(array, x) == SelectSeq(array, LAMBDA y : y # x)

\* A join_team that does not look whether the caller is a member already.
join_team_unchecked(s, req, env, ctx) ==
    IF ~ s.db THEN Reply(s, 500, [error |-> "Failed to join team"])
    ELSE IF ~ exists(s, "teams", req.args.team_id)
    THEN Reply(s, 404, [error |-> "Team not found"])
    ELSE Reply(update(s, "teams", req.args.team_id,
                      [members |-> ArrayUnion(Get(s.teams[req.args.team_id], "members", <<>>),
                                              ctx.user_id),
                       member_roles |->
                          (ctx.user_id :> "DEVELOPER")
                          @@ Get(s.teams[req.args.team_id], "member_roles", <<>>),
                       member_joined |->
                          (ctx.user_id :> env.now)
                          @@ Get(s.teams[req.args.team_id], "member_joined", <<>>),
                       updated_at |-> env.now]),
               200, [success |-> TRUE, message |-> "Successfully joined team"])

join_team(s, req, env, ctx) ==
    LET team_id == req.args.team_id
        user_id == ctx.user_id
        failed == [error |-> "Failed to join team"]
    IN  IF ~ s.db THEN Reply(s, 500, failed)
        ELSE IF ~ exists(s, "teams", team_id) THEN Reply(s, 404, [error |-> "Team not found"])
        ELSE LET team_data == s.teams[team_id]
                 members == Get(team_data, "members", <<>>)
             IN  IF \E i \in 1..Len(members) : members[i] = user_id
                 THEN Reply(s, 400, [error |-> "Already a team member"])
                 ELSE LET s1 == update(s, "teams", team_id,
                                 [members |-> ArrayUnion(members, user_id),
                                  member_roles |->
                                     (user_id :> "DEVELOPER")
                                     @@ Get(team_data, "member_roles", <<>>),
                                  member_joined |->
                                     (user_id :> env.now)
                                     @@ Get(team_data, "member_joined", <<>>),
                                  updated_at |-> env.now])
                      IN  Reply(s1, 200, [success |-> TRUE,
                                          message |-> "Successfully joined team"])

\* lines 3032-3037: the update of remove_team_member.  A map the team does not
\* have is not created by the deletion of a key of it.
removal(team_data, member_id, now) ==
    LET maps == {"member_roles", "member_joined"} \cap DOMAIN team_data
    IN  [f \in maps |-> without(team_data[f], member_id)]
        @@ [members |-> ArrayRemove(Get(team_data, "members", <<>>), member_id),
            updated_at |-> now]

\* A remove_team_member that any caller may use.
remove_team_member_open(s, req, env, ctx) ==
    LET team_id == req.args.team_id
        member_id == req.args.member_id
    IN  IF ~ s.db THEN Reply(s, 500, [error |-> "Failed to remove team member"])
        ELSE IF ~ exists(s, "teams", team_id) THEN Reply(s, 404, [error |-> "Team not found"])
        ELSE IF member_id = Get(s.teams[team_id], "owner_id", None)
        THEN Reply(s, 400, [error |-> "Cannot remove team owner"])
        ELSE Reply(track_user_action(
                       update(s, "teams", team_id, removal(s.teams[team_id], member_id, env.now)),
                       ctx, env, "remove_team_member", None),
                   200, [success |-> TRUE, message |-> "Member removed successfully"])

\* A remove_team_member whose owner may remove anybody, the owner included.
remove_team_member_any(s, req, env, ctx) ==
    LET team_id == req.args.team_id
        member_id == req.args.member_id
    IN  IF ~ s.db THEN Reply(s, 500, [error |-> "Failed to remove team member"])
        ELSE IF ~ exists(s, "teams", team_id) THEN Reply(s, 404, [error |-> "Team not found"])
        ELSE IF Get(s.teams[team_id], "owner_id", None) # ctx.user_id
        THEN Reply(s, 403, [error |-> "Only team owner can remove members"])
        ELSE Reply(update(s, "teams", team_id, removal(s.teams[team_id], member_id, env.now)),
                   200, [success |-> TRUE, message |-> "Member removed successfully"])

remove_team_member(s, req, env, ctx) ==
    LET team_id == req.args.team_id
        member_id == req.args.member_id
        failed == [error |-> "Failed to remove team member"]
    IN  IF ~ s.db THEN Reply(s, 500, failed)
        ELSE IF ~ exists(s, "teams", team_id) THEN Reply(s, 404, [error |-> "Team not found"])
        ELSE LET team_data == s.teams[team_id]
             IN  IF Get(team_data, "owner_id", None) # ctx.user_id
                 THEN Reply(s, 403, [error |-> "Only team owner can remove members"])
                 ELSE IF member_id = Get(team_data, "owner_id", None)
                 THEN Reply(s, 400, [error |-> "Cannot remove team owner"])
                 ELSE LET s1 == update(s, "teams", team_id,
                                       removal(team_data, member_id, env.now))
                          s2 == track_user_action(s1, ctx, env, "remove_team_member", None)
                      IN  IF s2 = Raised THEN Reply(s1, 500, failed)
                          ELSE Reply(s2, 200, [success |-> TRUE,
                                               message |-> "Member removed successfully"])

\* A delete_team that any caller may use.
delete_team_open(s, req, env, ctx) ==
    IF ~ s.db THEN Reply(s, 500, [success |-> FALSE, error |-> "Failed to delete team"])
    ELSE IF ~ exists(s, "teams", req.args.team_id)
    THEN Reply(s, 404, [success |-> FALSE, error |-> "Team not found"])
    ELSE Reply(track_user_action(delete(s, "teams", req.args.team_id), ctx, env,
                                 "delete_team", None),
               200, [success |-> TRUE, message |-> "Team deleted successfully"])

delete_team(s, req, env, ctx) ==
    LET team_id == req.args.team_id
        failed == [success |-> FALSE, error |-> "Failed to delete team"]
    IN  IF ~ s.db THEN Reply(s, 500, failed)
        ELSE IF ~ exists(s, "teams", team_id)
        THEN Reply(s, 404, [success |-> FALSE, error |-> "Team not found"])
        ELSE IF Get(s.teams[team_id], "owner_id", None) # ctx.user_id
        THEN Reply(s, 403, [success |-> FALSE, error |-> "Only team owner can delete team"])
        ELSE LET s1 == delete(s, "teams", team_id)
                 s2 == track_user_action(s1, ctx, env, "delete_team", None)
             IN  IF s2 = Raised THEN Reply(s1, 500, failed)
                 ELSE Reply(s2, 200, [success |-> TRUE,
                                      message |-> "Team deleted successfully"])

(***************************************************************************)
(* Members and their roles (app.py 1728-1771, 2939-3004, 3052-3091).       *)
(***************************************************************************)
Roles == {"OWNER", "MANAGER", "DEVELOPER"}

\* team_data.get('member_roles', {}).get(user_id, 'DEVELOPER')
user_role(team_data, user_id) == Get(Get(team_data, "member_roles", <<>>), user_id, "DEVELOPER")

\* auth.get_user_by_email: the user record, or Raised for an unknown email
get_user_by_email(email) ==
    CASE email = "u1@x.io" -> [uid |-> "u1"]
      [] email = "u2@x.io" -> [uid |-> "u2"]
      [] email = "u3@x.io" -> [uid |-> "u3"]
      [] OTHER -> Raised

\* update({'member_roles.<id>': role, ...}): the entry of one member is set, the
\* map made if the team has none
set_entry(team_data, field, member_id, value) ==
    (member_id :> value) @@ Get(team_data, field, <<>>)

add_team_member(s, req, env, ctx) ==
    LET team_id == req.args.team_id
        data == req.json
        failed == [error |-> "Failed to add team member"]
    IN  \* a null body, or an email that is null: .get or .strip raises
        IF data = Null \/ Get(data, "email", "") = None THEN Reply(s, 500, failed)
        ELSE LET member_email == strip(Get(data, "email", ""))
                 member_role == Get(data, "role", "DEVELOPER")
             IN  IF member_email = ""
                 THEN Reply(s, 400, [error |-> "Member email is required"])
                 ELSE IF ~ s.db THEN Reply(s, 500, failed)
                 ELSE IF ~ exists(s, "teams", team_id)
                 THEN Reply(s, 404, [error |-> "Team not found"])
                 ELSE LET team_data == s.teams[team_id]
                          member_user == get_user_by_email(member_email)
                          members == Get(team_data, "members", <<>>)
                      IN  IF user_role(team_data, ctx.user_id) \notin {"OWNER", "MANAGER"}
                          THEN Reply(s, 403, [error |-> "Permission denied"])
                          ELSE IF member_user = Raised
                          THEN Reply(s, 404, [error |-> "User not found"])
                          ELSE IF \E i \in 1..Len(members) : members[i] = member_user.uid
                          THEN Reply(s, 400, [error |-> "User is already a team member"])
                          ELSE LET member_id == member_user.uid
                                   s1 == update(s, "teams", team_id,
                                            [members |-> ArrayUnion(members, member_id),
                                             member_roles |->
                                                set_entry(team_data, "member_roles",
                                                          member_id, member_role),
                                             member_joined |->
                                                set_entry(team_data, "member_joined",
                                                          member_id, env.now),
                                             updated_at |-> env.now])
                                   s2 == track_user_action(s1, ctx, env, "add_team_member",
                                                           None)
                               IN  IF s2 = Raised THEN Reply(s1, 500, failed)
                                   ELSE Reply(s2, 200,
                                              [success |-> TRUE,
                                               message |-> "Member added successfully",
                                               member |-> [id |-> member_id,
                                                           email |-> member_email,
                                                           role |-> member_role,
                                                           joined_at |-> env.now]])

\* lines 3066-3083 and 1744-1762: the part the two role routes share, once the
\* role is known to be one of the three
set_role(s, team_id, user_id, member_id, new_role, now) ==
    IF ~ s.db THEN Reply(s, 500, [error |-> "Failed to update role"])
    ELSE IF ~ exists(s, "teams", team_id) THEN Reply(s, 404, [error |-> "Team not found"])
    ELSE LET team_data == s.teams[team_id]
         IN  IF user_role(team_data, user_id) \notin {"OWNER", "MANAGER"}
             THEN Reply(s, 403, [error |-> "Permission denied"])
             ELSE Reply(update(s, "teams", team_id,
                               [member_roles |->
                                   set_entry(team_data, "member_roles", member_id, new_role),
                                updated_at |-> now]),
                        200, [success |-> TRUE, message |-> "Role updated successfully"])

\* An update_member_role that asks for no permission.
update_member_role_open(s, req, env, ctx) ==
    IF req.json = Null THEN Reply(s, 500, [error |-> "Failed to update role"])
    ELSE IF Get(req.json, "role", None) \notin Roles
    THEN Reply(s, 400, [error |-> "Invalid role"])
    ELSE IF ~ s.db THEN Reply(s, 500, [error |-> "Failed to update role"])
    ELSE IF ~ exists(s, "teams", req.args.team_id)
    THEN Reply(s, 404, [error |-> "Team not found"])
    ELSE Reply(update(s, "teams", req.args.team_id,
                      [member_roles |->
                          set_entry(s.teams[req.args.team_id], "member_roles",
                                    req.args.member_id, req.json.role),
                       updated_at |-> env.now]),
               200, [success |-> TRUE, message |-> "Role updated successfully"])

update_member_role(s, req, env, ctx) ==
    LET data == req.json
        new_role == Get(data, "role", None)
    IN  IF data = Null THEN Reply(s, 500, [error |-> "Failed to update role"])
        ELSE IF new_role \notin Roles THEN Reply(s, 400, [error |-> "Invalid role"])
        ELSE set_role(s, req.args.team_id, ctx.user_id, req.args.member_id, new_role, env.now)

update_team_member_role(s, req, env, ctx) ==
    LET data == req.json
        target_member_id == Get(data, "member_id", None)
        new_role == Get(data, "role", None)
    IN  IF data = Null THEN Reply(s, 500, [error |-> "Failed to update role"])
        ELSE IF ~ truthy(target_member_id) \/ ~ truthy(new_role)
        THEN Reply(s, 400, [error |-> "member_id and role are required"])
        ELSE IF new_role \notin Roles THEN Reply(s, 400, [error |-> "Invalid role"])
        ELSE set_role(s, req.args.team_id, ctx.user_id, target_member_id, new_role, env.now)

(***************************************************************************)
(* The teams blueprint (teams.py).  Its db is firestore.client(), made at  *)
(* import: it is never None.                                               *)
(***************************************************************************)
teams_delete_team(s, req, env, ctx) ==
    LET team_id == req.args.team_id
    IN  IF ~ exists(s, "teams", team_id)
        THEN Reply(s, 404, [success |-> FALSE, error |-> "Team not found"])
        ELSE IF Get(s.teams[team_id], "owner_id", None) # ctx.user_id
        THEN Reply(s, 403, [success |-> FALSE,
                            error |-> "Access denied - only team owner can delete team"])
        ELSE Reply(delete(s, "teams", team_id), 200,
                   [success |-> TRUE, message |-> "Team deleted successfully"])

\* teams.py create_team (lines 91-147): the company is the body's, not a header's
teams_create_team(s, req, env, ctx) ==
    LET data == req.json
        failed == [success |-> FALSE, error |-> "Failed to create team"]
    IN  IF data = Null \/ Get(data, "name", "") = None THEN Reply(s, 500, failed)
        ELSE LET team_name == strip(Get(data, "name", ""))
                 team_doc == [name |-> team_name,
                              description |-> Get(data, "description", ""),
                              owner_id |-> ctx.user_id,
                              company_id |-> Get(data, "company_id", "default"),
                              members |-> <<ctx.user_id>>,
                              member_roles |-> (ctx.user_id :> "OWNER"),
                              created_at |-> env.now, updated_at |-> env.now]
                 s1 == add(s, "teams", team_doc)
             IN  IF team_name = ""
                 THEN Reply(s, 400, [success |-> FALSE, error |-> "Team name is required"])
                 ELSE Reply(s1, 200,
                            [success |-> TRUE,
                             team |-> [id |-> new_id(s1), name |-> team_name,
                                       role |-> "OWNER", member_count |-> 1,
                                       owner_name |-> ctx.user_email,
                                       owner_id |-> ctx.user_id,
                                       company_id |-> team_doc.company_id,
                                       created_at |-> team_doc.created_at,
                                       description |-> team_doc.description]])

\* teams.py join_team (lines 314-366): the lists and maps read are written back
\* whole
teams_join_team(s, req, env, ctx) ==
    LET team_id == req.args.team_id
        user_id == ctx.user_id
    IN  IF ~ exists(s, "teams", team_id)
        THEN Reply(s, 404, [success |-> FALSE, error |-> "Team not found"])
        ELSE LET team_data == s.teams[team_id]
                 members == Get(team_data, "members", <<>>)
             IN  IF \E i \in 1..Len(members) : members[i] = user_id
                 THEN Reply(s, 400, [success |-> FALSE,
                                     error |-> "You are already a member of this team"])
                 ELSE Reply(update(s, "teams", team_id,
                                   [members |-> Append(members, user_id),
                                    member_roles |->
                                       set_entry(team_data, "member_roles", user_id,
                                                 "DEVELOPER"),
                                    member_joined |->
                                       set_entry(team_data, "member_joined", user_id,
                                                 env.now),
                                    updated_at |-> env.now]),
                            200, [success |-> TRUE, message |-> "Successfully joined team"])

\* list.remove(x): the first x of the list
remove_first(array, x) ==
    LET i == CHOOSE j \in 1..Len(array) :
                 array[j] = x /\ \A k \in 1..(j - 1) : array[k] # x
    IN  SubSeq(array, 1, i - 1) \o SubSeq(array, i + 1, Len(array))

\* A leave_team that lets the owner leave and keeps the role of who left.
teams_leave_team_open(s, req, env, ctx) ==
    IF ~ exists(s, "teams", req.args.team_id)
    THEN Reply(s, 404, [success |-> FALSE, error |-> "Team not found"])
    ELSE IF ~ \E i \in 1..Len(s.teams[req.args.team_id].members) :
                  s.teams[req.args.team_id].members[i] = ctx.user_id
    THEN Reply(s, 400, [success |-> FALSE, error |-> "You are not a member of this team"])
    ELSE Reply(update(s, "teams", req.args.team_id,
                      [members |-> remove_first(s.teams[req.args.team_id].members, ctx.user_id),
                       updated_at |-> env.now]),
               200, [success |-> TRUE, message |-> "Successfully left team"])

\* teams.py leave_team (lines 369-430)
teams_leave_team(s, req, env, ctx) ==
    LET team_id == req.args.team_id
        user_id == ctx.user_id
    IN  IF ~ exists(s, "teams", team_id)
        THEN Reply(s, 404, [success |-> FALSE, error |-> "Team not found"])
        ELSE LET team_data == s.teams[team_id]
                 members == Get(team_data, "members", <<>>)
             IN  IF ~ \E i \in 1..Len(members) : members[i] = user_id
                 THEN Reply(s, 400, [success |-> FALSE,
                                     error |-> "You are not a member of this team"])
                 ELSE IF Get(team_data, "owner_id", None) = user_id
                 THEN Reply(s, 400,
                            [success |-> FALSE,
                             error |-> "Team owner cannot leave team. Transfer ownership or delete the team."])
                 ELSE Reply(update(s, "teams", team_id,
                                   [members |-> remove_first(members, user_id),
                                    member_roles |->
                                       without(Get(team_data, "member_roles", <<>>), user_id),
                                    member_joined |->
                                       without(Get(team_data, "member_joined", <<>>), user_id),
                                    updated_at |-> env.now]),
                            200, [success |-> TRUE, message |-> "Successfully left team"])

(***************************************************************************)
(* Socket.IO events (app.py 551-590).  No handler of them authenticates.   *)
(* data is the payload of the event, sid the client that sent it.          *)
(***************************************************************************)
join_room(s, sid, room) == [s EXCEPT !.rooms[sid] = @ \cup {room}]
leave_room(s, sid, room) == [s EXCEPT !.rooms[sid] = @ \ {room}]

\* emit(event, data) inside a handler: to the client that sent the event
emit_back(s, sid, event, data) ==
    [s EXCEPT !.emitted = Append(@, [event |-> event, room |-> sid, data |-> data,
                                     to |-> {sid}])]

handle_join_team(s, sid, data) ==
    LET team_id == Get(data, "team_id", None)
        company_id == Get(data, "company_id", "default")
        room == team_room(company_id, team_id)
    IN  IF data = Null THEN s
        ELSE IF truthy(team_id) /\ truthy(company_id)
        THEN emit_back(join_room(s, sid, room), sid, "team_joined",
                       [team_id |-> team_id, room |-> room])
        ELSE s

handle_leave_team(s, sid, data) ==
    LET team_id == Get(data, "team_id", None)
        company_id == Get(data, "company_id", "default")
        room == team_room(company_id, team_id)
    IN  IF data = Null THEN s
        ELSE IF truthy(team_id) /\ truthy(company_id)
        THEN emit_back(leave_room(s, sid, room), sid, "status",
                       [msg |-> "Left team " \o team_id])
        ELSE s

handle_join_sprint(s, sid, data) ==
    LET sprint_id == Get(data, "sprint_id", None)
    IN  IF data = Null THEN s
        ELSE IF truthy(sprint_id)
        THEN emit_back(join_room(s, sid, sprint_room(sprint_id)), sid, "status",
                       [msg |-> "Joined sprint " \o sprint_id])
        ELSE s

handle_leave_sprint(s, sid, data) ==
    LET sprint_id == Get(data, "sprint_id", None)
    IN  IF data = Null THEN s
        ELSE IF truthy(sprint_id)
        THEN emit_back(leave_room(s, sid, sprint_room(sprint_id)), sid, "status",
                       [msg |-> "Left sprint " \o sprint_id])
        ELSE s

\* the handler of a socket event (the @socketio.on lines)
HandleSocket(op, s, sid, data) ==
    CASE op = "join_team" -> handle_join_team(s, sid, data)
      [] op = "leave_team" -> handle_leave_team(s, sid, data)
      [] op = "join_sprint" -> handle_join_sprint(s, sid, data)
      [] op = "leave_sprint" -> handle_leave_sprint(s, sid, data)

\* The order of two timestamps as strings.  The model's timestamps are "d1",
\* "d2", ...: they compare as their last digit, and '' is before all of them.
stamp(t) == IF t = "" THEN 0 ELSE digit_value(Char(t, Len(t))) + 1

\* blockers.sort(key=created_at, reverse=True): newest first, documents of the
\* same time in the order they were read
RECURSIVE sort_newest(_)
sort_newest(docs) ==
    IF docs = <<>> THEN <<>>
    ELSE LET x == Head(docs)
             rest == sort_newest(Tail(docs))
             newer == SelectSeq(rest, LAMBDA d : stamp(Get(d, "created_at", ""))
                                                    > stamp(Get(x, "created_at", "")))
             others == SelectSeq(rest, LAMBDA d : stamp(Get(d, "created_at", ""))
                                                     <= stamp(Get(x, "created_at", "")))
         IN  newer \o <<x>> \o others

\* the order in which a query streams the documents: by document id
StreamOrder == <<"b1", "b2", "b3">>

\* A get_active_blockers_v2 that does not filter by status.
get_active_blockers_v2_all(s, req, env, ctx) ==
    IF ~ truthy(Get(req.args, "team_id", None))
    THEN Reply(s, 400, [error |-> "team_id is required"])
    ELSE IF ~ s.db THEN Reply(s, 500, [success |-> FALSE, error |-> "Failed to fetch blockers"])
    ELSE LET ids == SelectSeq(StreamOrder, LAMBDA i :
                       /\ i \in DOMAIN s.blockers
                       /\ Get(s.blockers[i], "company_id", None) = ctx.company_id
                       /\ Get(s.blockers[i], "team_id", None) = req.args.team_id)
             found == sort_newest([n \in 1..Len(ids) |-> [id |-> ids[n]] @@ s.blockers[ids[n]]])
         IN  Reply(s, 200, [success |-> TRUE, blockers |-> found, total_count |-> Len(found)])

get_active_blockers_v2(s, req, env, ctx) ==
    LET company_id == ctx.company_id
        team_id == Get(req.args, "team_id", None)
    IN  IF ~ truthy(team_id) THEN Reply(s, 400, [error |-> "team_id is required"])
        ELSE IF ~ s.db
        THEN Reply(s, 500, [success |-> FALSE, error |-> "Failed to fetch blockers"])
        ELSE LET ids == SelectSeq(StreamOrder, LAMBDA i :
                           /\ i \in DOMAIN s.blockers
                           /\ Get(s.blockers[i], "company_id", None) = company_id
                           /\ Get(s.blockers[i], "team_id", None) = team_id
                           /\ Get(s.blockers[i], "status", None) = "active")
                 found == sort_newest([n \in 1..Len(ids) |->
                                          [id |-> ids[n]] @@ s.blockers[ids[n]]])
             IN  Reply(s, 200, [success |-> TRUE, blockers |-> found,
                                total_count |-> Len(found)])

(***************************************************************************)
(* The health route, the lists of teams and sprints, and sprint comments   *)
(* (app.py 601-614, 642-706, 1371-1454, 1993-2045).  The sprint_comments   *)
(* collection is kept as a log of its adds; the reply of get_sprints       *)
(* leaves the comments of a sprint out.                                    *)
(***************************************************************************)
\* lines 603-614: the reply of /api/health
api_health(s, req, env, ctx) ==
    LET firebase_status == IF s.db THEN "connected" ELSE "disconnected"
        openai_status == IF s.openai_key THEN "configured" ELSE "not configured"
    IN  Reply(s, 200,
              [status |-> IF firebase_status = "connected" THEN "healthy" ELSE "degraded",
               timestamp |-> env.now,
               services |-> [firebase |-> firebase_status, openai |-> openai_status,
                             websocket |-> "enabled", analytics |-> "enabled"]])

\* auth.get_user: the record of a user, or Raised
get_user(uid) ==
    CASE uid = "u1" -> [display_name |-> "Una", email |-> "u1@x.io"]
      [] uid = "u2" -> [display_name |-> None, email |-> "u2@x.io"]
      [] uid = "u3" -> [display_name |-> None, email |-> None]
      [] OTHER -> Raised

\* lines 675-682: display_name or email of the owner, 'Unknown' without one
owner_name(owner_id) ==
    IF ~ truthy(owner_id) \/ get_user(owner_id) = Raised THEN "Unknown"
    ELSE IF truthy(get_user(owner_id).display_name) THEN get_user(owner_id).display_name
    ELSE get_user(owner_id).email

TeamOrder == <<"t1", "t2", "t3">>

\* lines 656-694: the teams of the company the user is a member of
team_list(s, ctx) ==
    LET ids == SelectSeq(TeamOrder, LAMBDA i :
                   /\ i \in DOMAIN s.teams
                   /\ \E n \in 1..Len(Get(s.teams[i], "members", <<>>)) :
                          s.teams[i].members[n] = ctx.user_id
                   /\ Get(s.teams[i], "company_id", None) = ctx.company_id)
    IN  [n \in 1..Len(ids) |->
            LET team_data == s.teams[ids[n]]
            IN  [id |-> ids[n],
                 name |-> Get(team_data, "name", "Unnamed Team"),
                 role |-> user_role(team_data, ctx.user_id),
                 member_count |-> Len(Get(team_data, "members", <<>>)),
                 owner_name |-> owner_name(Get(team_data, "owner_id", None)),
                 owner_id |-> Get(team_data, "owner_id", None),
                 company_id |-> Get(team_data, "company_id", None),
                 created_at |-> Get(team_data, "created_at", None),
                 description |-> Get(team_data, "description", "")]]

\* A get_teams without the test of db: the query raises without a client.
get_teams_unguarded(s, req, env, ctx) ==
    IF ~ s.db THEN Reply(s, 500, [success |-> FALSE, error |-> "Failed to fetch teams"])
    ELSE Reply(track_user_action(s, ctx, env, "view_teams", None),
               200, [success |-> TRUE, teams |-> team_list(s, ctx)])

get_teams(s, req, env, ctx) ==
    IF ~ s.db THEN Reply(s, 503, [error |-> "Database connection not available"])
    ELSE LET s1 == track_user_action(s, ctx, env, "view_teams", None)
         IN  Reply(s1, 200, [success |-> TRUE, teams |-> team_list(s1, ctx)])

SprintOrder == <<"sp1">>
TaskOrder == <<"k1", "k2">>

\* lines 1393-1432: the tasks of a sprint and their metrics, Raised when an
\* estimate is no number
sprint_with_tasks(s, sprint_id) ==
    LET ids == SelectSeq(TaskOrder, LAMBDA k : k \in sprint_tasks(s, sprint_id))
        analytics == final_analytics(s, sprint_id)
    IN  IF analytics = Raised THEN Raised
        ELSE [tasks |-> [n \in 1..Len(ids) |-> [id |-> ids[n]] @@ s.tasks[ids[n]]],
              analytics |-> [f \in (DOMAIN analytics) \ {"velocity"} |-> analytics[f]],
              id |-> sprint_id]
             @@ s.sprints[sprint_id]

get_sprints(s, req, env, ctx) ==
    LET company_id == ctx.company_id
        team_id == Get(req.args, "team_id", None)
    IN  IF ~ s.db THEN Reply(s, 503, [error |-> "Database connection not available"])
        ELSE IF ~ truthy(team_id) THEN Reply(s, 400, [error |-> "team_id is required"])
        ELSE LET s1 == track_user_action(s, ctx, env, "view_sprints", team_id)
                 ids == SelectSeq(SprintOrder, LAMBDA i :
                            /\ i \in DOMAIN s1.sprints
                            /\ Get(s1.sprints[i], "team_id", None) = team_id
                            /\ Get(s1.sprints[i], "company_id", None) = company_id)
             IN  IF \E n \in 1..Len(ids) : sprint_with_tasks(s1, ids[n]) = Raised
                 THEN Reply(s1, 500, [success |-> FALSE, error |-> "Failed to fetch sprints"])
                 ELSE Reply(s1, 200,
                            [success |-> TRUE,
                             sprints |-> [n \in 1..Len(ids) |-> sprint_with_tasks(s1, ids[n])]])

add_sprint_comment(s, req, env, ctx) ==
    LET sprint_id == req.args.sprint_id
        data == req.json
        failed == [success |-> FALSE, error |-> "Failed to add comment"]
    IN  IF ~ s.db
        THEN Reply(s, 503, [success |-> FALSE, error |-> "Database connection not available"])
        ELSE LET s1 == track_user_action(s, ctx, env, "add_comment", None)
             IN  IF data = Null THEN Reply(s1, 500, failed)
                 ELSE LET comment_data ==
                              [sprint_id |-> sprint_id, company_id |-> ctx.company_id,
                               author |-> Get(data, "author", "Anonymous"),
                               text |-> Get(data, "text", None),
                               created_by |-> ctx.user_id, created_at |-> env.now]
                      IN  IF ~ truthy(comment_data.text)
                          THEN Reply(s1, 400, [error |-> "Comment text is required"])
                          ELSE LET s2 == add(s1, "sprint_comments", comment_data)
                                   reported == [id |-> new_id(s2), time |-> "just now"]
                                               @@ comment_data
                                   s3 == emit(s2, "comment_added", sprint_room(sprint_id),
                                              [comment |-> reported, sprint_id |-> sprint_id])
                               IN  Reply(s3, 200, [success |-> TRUE, comment |-> reported])

(***************************************************************************)
(* Blockers derived from standups (app.py 2516-2730, 2903-2936).  The id   *)
(* of such a blocker is <standup id>_<number in the list>.                 *)
(***************************************************************************)
\* blocker_id.split('_'): the number of parts, and the first of them
RECURSIVE count_of(_, _)
count_of(text, c) ==
    IF text = "" THEN 0
    ELSE (IF Char(text, 1) = c THEN 1 ELSE 0) + count_of(SubSeq(text, 2, Len(text)), c)

RECURSIVE first_part(_, _)
first_part(text, c) ==
    IF text = "" \/ Char(text, 1) = c THEN ""
    ELSE Char(text, 1) \o first_part(SubSeq(text, 2, Len(text)), c)

\* where(...).limit(1).stream(): the first document of a collection about a
\* standup, in the order of the document ids, or Missing
ResolutionOrder == <<"n1", "n2">>
EscalationOrder == <<"e1">>

Missing == [missing |-> TRUE]

first_about(docs, order, standup_id) ==
    LET ids == SelectSeq(order, LAMBDA i :
                   i \in DOMAIN docs /\ Get(docs[i], "standup_id", None) = standup_id)
    IN  IF ids = <<>> THEN Missing ELSE docs[Head(ids)]

\* lines 2903-2936: keyword is not used
get_blocker_status(s, standup_id, keyword) ==
    LET resolution_data == first_about(s.blocker_resolutions, ResolutionOrder, standup_id)
        escalation_data == first_about(s.blocker_escalations, EscalationOrder, standup_id)
    IN  IF resolution_data # Missing
        THEN [status |-> "resolved",
              resolution |-> Get(resolution_data, "resolution", None),
              resolved_at |-> Get(resolution_data, "resolved_at", None),
              resolved_by |-> Get(resolution_data, "resolved_by", None)]
        ELSE IF escalation_data # Missing
        THEN [status |-> "escalated",
              escalated_at |-> Get(escalation_data, "escalated_at", None),
              escalated_by |-> Get(escalation_data, "escalated_by", None)]
        ELSE [status |-> "active"]

\* timedelta(days=30), in the days the model's timestamps count
Window == 30

StandupOrder == <<"s1">>

\* lines 2551-2578: the blockers of one standup, numbered from counter on
standup_blockers(s, standup_id, counter) ==
    LET standup_data == s.standups[standup_id]
        blocker_analysis == Get(standup_data, "blocker_analysis", <<>>)
        found == IF Get(blocker_analysis, "has_blockers", FALSE)
                 THEN Get(blocker_analysis, "blockers", <<>>) ELSE <<>>
    IN  [n \in 1..Len(found) |->
            LET blocker == found[n]
                blocker_status ==
                    get_blocker_status(s, standup_id, Get(blocker, "keyword", ""))
            IN  [id |-> standup_id \o "_" \o ToString(counter + n - 1),
                 standup_id |-> standup_id,
                 user_id |-> Get(standup_data, "user_id", None),
                 user_email |-> Get(standup_data, "user_email", None),
                 user_name |-> Get(standup_data, "user_name",
                                   Get(standup_data, "user_email", None)),
                 keyword |-> Get(blocker, "keyword", ""),
                 context |-> Get(blocker, "context", ""),
                 severity |-> Get(blocker, "severity", "low"),
                 status |-> Get(blocker_status, "status", "active"),
                 created_at |-> Get(standup_data, "created_at", None),
                 date |-> Get(standup_data, "date", None),
                 standup_context |-> Get(standup_data, "blockers", ""),
                 resolution |-> Get(blocker_status, "resolution", None),
                 resolved_at |-> Get(blocker_status, "resolved_at", None),
                 resolved_by |-> Get(blocker_status, "resolved_by", None),
                 escalated |-> Get(blocker_status, "escalated", FALSE)]]

RECURSIVE all_blockers(_, _, _)
all_blockers(s, ids, counter) ==
    IF ids = <<>> THEN <<>>
    ELSE LET here == standup_blockers(s, Head(ids), counter)
         IN  here \o all_blockers(s, Tail(ids), counter + Len(here))

get_active_blockers(s, req, env, ctx) ==
    LET company_id == ctx.company_id
        team_id == Get(req.args, "team_id", None)
    IN  IF ~ truthy(team_id) THEN Reply(s, 400, [error |-> "team_id is required"])
        ELSE LET s1 == track_user_action(s, ctx, env, "view_active_blockers", team_id)
             IN  IF ~ s.db
                 THEN Reply(s, 500, [success |-> FALSE, error |-> "Failed to fetch blockers"])
                 ELSE IF ~ exists(s1, "teams", team_id)
                         \/ Get(s1.teams[team_id], "company_id", None) # company_id
                 THEN Reply(s1, 403, [error |-> "Team not found or access denied"])
                 ELSE LET ids == SelectSeq(StandupOrder, LAMBDA i :
                                     /\ i \in DOMAIN s1.standups
                                     /\ Get(s1.standups[i], "team_id", None) = team_id
                                     /\ Get(s1.standups[i], "company_id", None) = company_id
                                     /\ "date" \in DOMAIN s1.standups[i]
                                     /\ stamp(s1.standups[i].date) + Window >= stamp(env.now))
                          found == sort_newest(all_blockers(s1, ids, 1))
                      IN  Reply(s1, 200, [success |-> TRUE, blockers |-> found,
                                          total_count |-> Len(found)])

resolve_blocker(s, req, env, ctx) ==
    LET blocker_id == req.args.blocker_id
        company_id == ctx.company_id
        data == req.json
        failed == [success |-> FALSE, error |-> "Failed to resolve blocker"]
    IN  \* a null body, or a resolution that is null: .get or .strip raises
        IF data = Null \/ Get(data, "resolution", "") = None THEN Reply(s, 500, failed)
        ELSE IF strip(Get(data, "resolution", "")) = ""
        THEN Reply(s, 400, [error |-> "Resolution description is required"])
        ELSE IF count_of(blocker_id, "_") < 1
        THEN Reply(s, 400, [error |-> "Invalid blocker ID"])
        ELSE IF ~ s.db THEN Reply(s, 500, failed)
        ELSE LET standup_id == first_part(blocker_id, "_")
             IN  IF ~ exists(s, "standups", standup_id)
                 THEN Reply(s, 404, [error |-> "Standup not found"])
                 ELSE IF Get(s.standups[standup_id], "company_id", None) # company_id
                 THEN Reply(s, 403, [error |-> "Access denied"])
                 ELSE LET team_id == Get(s.standups[standup_id], "team_id", None)
                          s1 == add(s, "blocker_resolutions",
                                    [blocker_id |-> blocker_id, standup_id |-> standup_id,
                                     team_id |-> team_id, company_id |-> company_id,
                                     resolution |-> strip(data.resolution),
                                     resolved_by |-> ctx.user_email,
                                     resolved_by_id |-> ctx.user_id,
                                     resolved_at |-> env.now, status |-> "resolved"])
                          s2 == track_user_action(s1, ctx, env, "resolve_blocker", team_id)
                          s3 == emit(s2, "blocker_resolved", team_room(company_id, team_id),
                                     [blocker_id |-> blocker_id,
                                      resolved_by |-> ctx.user_email,
                                      resolution |-> strip(data.resolution),
                                      team_id |-> team_id])
                      IN  Reply(s3, 200, [success |-> TRUE,
                                          message |-> "Blocker resolved successfully"])

escalate_blocker(s, req, env, ctx) ==
    LET blocker_id == req.args.blocker_id
        company_id == ctx.company_id
        failed == [success |-> FALSE, error |-> "Failed to escalate blocker"]
    IN  IF count_of(blocker_id, "_") < 1
        THEN Reply(s, 400, [error |-> "Invalid blocker ID"])
        ELSE IF ~ s.db THEN Reply(s, 500, failed)
        ELSE LET standup_id == first_part(blocker_id, "_")
             IN  IF ~ exists(s, "standups", standup_id)
                 THEN Reply(s, 404, [error |-> "Standup not found"])
                 ELSE IF Get(s.standups[standup_id], "company_id", None) # company_id
                 THEN Reply(s, 403, [error |-> "Access denied"])
                 ELSE LET standup_data == s.standups[standup_id]
                          team_id == Get(standup_data, "team_id", None)
                          s1 == add(s, "blocker_escalations",
                                    [blocker_id |-> blocker_id, standup_id |-> standup_id,
                                     team_id |-> team_id, company_id |-> company_id,
                                     escalated_by |-> ctx.user_email,
                                     escalated_by_id |-> ctx.user_id,
                                     escalated_at |-> env.now, status |-> "escalated",
                                     original_blocker |-> Get(standup_data, "blockers", ""),
                                     original_user |-> Get(standup_data, "user_email", "")])
                          s2 == track_user_action(s1, ctx, env, "escalate_blocker", team_id)
                          s3 == emit(s2, "blocker_escalated", team_room(company_id, team_id),
                                     [blocker_id |-> blocker_id,
                                      escalated_by |-> ctx.user_email, team_id |-> team_id,
                                      severity |-> "high",
                                      context |-> Get(standup_data, "blockers", "")])
                      IN  Reply(s3, 200, [success |-> TRUE,
                                          message |-> "Blocker escalated successfully"])

(***************************************************************************)
(* Routing: the handler Flask calls for an endpoint (the @app.route lines).*)
(***************************************************************************)
Route(op, s, req, env, ctx) ==
    CASE op = "submit_standup" -> submit_standup(s, req, env, ctx)
      [] op = "create_retrospective" -> create_retrospective(s, req, env, ctx)
      [] op = "submit_retrospective_feedback" ->
            submit_retrospective_feedback(s, req, env, ctx)
      [] op = "resolve_blocker_v2" -> resolve_blocker_v2(s, req, env, ctx)
      [] op = "update_blocker_priority_v2" -> update_blocker_priority_v2(s, req, env, ctx)
      [] op = "analyze_blocker_v2" -> analyze_blocker_v2(s, req, env, ctx)
      [] op = "create_sprint" -> create_sprint(s, req, env, ctx)
      [] op = "complete_sprint" -> complete_sprint(s, req, env, ctx)
      [] op = "create_task" -> create_task(s, req, env, ctx)
      [] op = "update_task" -> update_task(s, req, env, ctx)
      [] op = "delete_task" -> delete_task(s, req, env, ctx)
      [] op = "delete_team" -> delete_team(s, req, env, ctx)
      [] op = "create_team" -> create_team(s, req, env, ctx)
      [] op = "join_team" -> join_team(s, req, env, ctx)
      [] op = "remove_team_member" -> remove_team_member(s, req, env, ctx)
      [] op = "teams_delete_team" -> teams_delete_team(s, req, env, ctx)
      [] op = "teams_create_team" -> teams_create_team(s, req, env, ctx)
      [] op = "get_active_blockers_v2" -> get_active_blockers_v2(s, req, env, ctx)
      [] op = "teams_join_team" -> teams_join_team(s, req, env, ctx)
      [] op = "teams_leave_team" -> teams_leave_team(s, req, env, ctx)
      [] op = "add_team_member" -> add_team_member(s, req, env, ctx)
      [] op = "update_member_role" -> update_member_role(s, req, env, ctx)
      [] op = "update_team_member_role" -> update_team_member_role(s, req, env, ctx)
      [] op = "get_active_blockers" -> get_active_blockers(s, req, env, ctx)
      [] op = "resolve_blocker" -> resolve_blocker(s, req, env, ctx)
      [] op = "escalate_blocker" -> escalate_blocker(s, req, env, ctx)
      [] op = "api_health" -> api_health(s, req, env, ctx)
      [] op = "get_teams" -> get_teams(s, req, env, ctx)
      [] op = "get_sprints" -> get_sprints(s, req, env, ctx)
      [] op = "add_sprint_comment" -> add_sprint_comment(s, req, env, ctx)

\* the routes of teams.py
BlueprintOps ==
    {"teams_delete_team", "teams_create_team", "teams_join_team", "teams_leave_team"}

\* the routes without a decorator
OpenOps == {"api_health"}

\* Every other route of app.py above is decorated with @require_auth, every
\* route of teams.py with @verify_token.
Handle(op, s, req, env) ==
    LET a == IF op \in OpenOps THEN [ok |-> TRUE, ctx |-> NoContext]
             ELSE IF op \in BlueprintOps THEN verify_token(s, req)
             ELSE require_auth(s, req)
    IN  IF a.ok THEN Route(op, s, req, env, a.ctx) ELSE a.reply

(***************************************************************************)
(* Requests and the outside world: the small sets the inputs are drawn     *)
(* from.                                                                   *)
(***************************************************************************)
Texts == {"", "  ", "all good", "Stuck on API", "blocked by an issue"}

LLMFails == {[kind |-> "raise"], [kind |-> "badjson"], [kind |-> "nondict"]}
LLMReplies ==
    {[kind |-> "json", value |-> <<>>],
     [kind |-> "json",
      value |-> [blockers |-> << [keyword |-> "Stuck", severity |-> "high",
                                  context |-> "API down"] >>,
                 overall_severity |-> "high", sentiment |-> "negative",
                 analysis |-> "blocked on the API"]],
     [kind |-> "json", value |-> [blockers |-> << [keyword |-> None] >>]]}
LLMs == LLMFails \cup LLMReplies

Request(authorization, company, json, args) ==
    [authorization |-> authorization, company |-> company, json |-> json, args |-> args]

Env(now, analytics_raises, llm, firestore_up) ==
    [now |-> now, analytics_raises |-> analytics_raises, llm |-> llm,
     firestore_up |-> firestore_up]

NoArgs == [none |-> None]
Quiet == [kind |-> "raise"]

\* One request served: the state after it, and the record of it.
Apply(op, req, env, out) ==
    /\ ~ out.st.full
    /\ db' = out.st.db
    /\ openai_key' = out.st.openai_key
    /\ teams' = out.st.teams
    /\ sprints' = out.st.sprints
    /\ tasks' = out.st.tasks
    /\ blockers' = out.st.blockers
    /\ standups' = out.st.standups
    /\ retrospectives' = out.st.retrospectives
    /\ retrospective_feedback' = out.st.retrospective_feedback
    /\ blocker_resolutions' = out.st.blocker_resolutions
    /\ blocker_escalations' = out.st.blocker_escalations
    /\ rooms' = out.st.rooms
    /\ last' = [op |-> op, req |-> req, status |-> out.status, body |-> out.body,
                emitted |-> out.st.emitted, writes |-> out.st.writes]
    /\ UNCHANGED <<probe, inflight>>

\* A team document as create_team writes it (app.py 727-739).
new_team(name, user_id, company_id, now) ==
    [name |-> name, description |-> "", owner_id |-> user_id, company_id |-> company_id,
     members |-> <<user_id>>, member_roles |-> (user_id :> "OWNER"),
     created_at |-> now, updated_at |-> now]

NoRooms == [c \in Clients |-> {}]
Start == [op |-> "start", req |-> Request(None, None, Null, NoArgs), status |-> 0,
          body |-> <<>>, emitted |-> <<>>, writes |-> <<>>]
NoProbe == [fn |-> "none"]
Racers == {"u2", "u3"}
NoneInFlight == [u \in Racers |-> [pc |-> "idle", done |-> "none"]]

(***************************************************************************)
(* SpecStandup: standups and retrospectives of two teams of two companies. *)
(* What cannot matter to a request is not varied: the LLM's reply without  *)
(* OPENAI_API_KEY, the failure of the analytics write without a client.    *)
(***************************************************************************)
StandupTexts == {"", "  ", "all good", "blocked by an issue"}
StandupLLMs ==
    {[kind |-> "raise"],
     [kind |-> "json",
      value |-> [blockers |-> << [keyword |-> "Blocked", severity |-> "high"] >>,
                 analysis |-> "waiting"]]}

LLMsNow(S) == IF openai_key THEN S ELSE {Quiet}
FailuresNow == IF db THEN BOOLEAN ELSE {FALSE}

StandupBodies ==
    {Null, [blockers |-> "all good"]}
    \cup {[team_id |-> "t1", blockers |-> b] : b \in StandupTexts}
    \cup {[team_id |-> t, blockers |-> "blocked by an issue"] : t \in {"t2", "t3"}}

RetroBodies ==
    {Null, [sprint_name |-> "S"]} \cup {[team_id |-> t] : t \in {"t1", "t2", "t3"}}

FeedbackBodies ==
    {Null, [feedback |-> "we should test"], [team_id |-> "t1"]}
    \cup {[team_id |-> t, category |-> "went_well", feedback |-> "we should test",
           anonymous |-> TRUE] : t \in {"t1", "t2", "t3"}}

\* Requests with a good token, and requests with none or a stale one that would
\* have an effect with a good one.
Requests(companies, bodies, args, effective) ==
    {Request("Bearer tok-u1", c, j, g) : c \in companies, j \in bodies, g \in args}
    \cup {Request(a, "c1", effective, g) : a \in {None, "Bearer stale"}, g \in args}

Envs(times, failures, llms) ==
    {Env(t, f, l, FALSE) : t \in times, f \in failures, l \in llms}

StandupReqs(op) ==
    CASE op = "submit_standup" ->
            Requests({None, "c1"}, StandupBodies, {NoArgs},
                     [team_id |-> "t1", blockers |-> "blocked by an issue"])
      [] op = "create_retrospective" ->
            Requests({None, "c1"}, RetroBodies, {NoArgs}, [team_id |-> "t1"])
      [] op = "submit_retrospective_feedback" ->
            Requests({None, "c1"}, FeedbackBodies, {NoArgs},
                     [team_id |-> "t1", category |-> "went_well",
                      feedback |-> "we should test", anonymous |-> TRUE])

\* the adds of a standup's blockers documents that may raise: none, the first,
\* the second
BlockerAddsRaising == IF db THEN {0, 1, 2} ELSE {0}

StandupEnvs(op) ==
    IF op = "submit_standup"
    THEN {e @@ [blockers_raise |-> k] :
             e \in Envs({"d1"}, FailuresNow, LLMsNow(StandupLLMs)), k \in BlockerAddsRaising}
    ELSE Envs({"d1"}, FailuresNow, {Quiet})

SubmitStandup ==
    \E req \in StandupReqs("submit_standup"),
       env \in StandupEnvs("submit_standup") :
        LET a == require_auth(Cur, req)
        IN  Apply("submit_standup", req, env,
                  IF a.ok THEN submit_standup(Cur, req, env, a.ctx) ELSE a.reply)

CreateRetrospective ==
    \E req \in StandupReqs("create_retrospective"),
       env \in StandupEnvs("create_retrospective") :
        LET a == require_auth(Cur, req)
        IN  Apply("create_retrospective", req, env,
                  IF a.ok THEN create_retrospective(Cur, req, env, a.ctx) ELSE a.reply)

SubmitRetrospectiveFeedback ==
    \E req \in StandupReqs("submit_retrospective_feedback"),
       env \in StandupEnvs("submit_retrospective_feedback") :
        LET a == require_auth(Cur, req)
        IN  Apply("submit_retrospective_feedback", req, env,
                  IF a.ok THEN submit_retrospective_feedback(Cur, req, env, a.ctx) ELSE a.reply)

TwoTeams ==
    ("t1" :> new_team("Core", "u1", "c1", "d1")) @@ ("t2" :> new_team("Apps", "u2", "c2", "d1"))

InitStandup ==
    /\ db \in BOOLEAN
    /\ openai_key \in BOOLEAN
    /\ teams = TwoTeams
    /\ sprints = <<>>
    /\ tasks = <<>>
    /\ blockers = <<>>
    /\ standups = <<>>
    /\ retrospectives = <<>>
    /\ retrospective_feedback = <<>>
    /\ blocker_resolutions = <<>>
    /\ blocker_escalations = <<>>
    /\ rooms = NoRooms
    /\ last = Start
    /\ probe = NoProbe
    /\ inflight = NoneInFlight

NextStandup ==
    \/ SubmitStandup
    \/ CreateRetrospective
    \/ SubmitRetrospectiveFeedback

SpecStandup == InitStandup /\ [][NextStandup]_vars

(***************************************************************************)
(* SpecBlockers: the first-class blocker routes, on the blockers that a    *)
(* standup of team t1 (company c1) or of team t2 (company c2) creates.     *)
(***************************************************************************)
BlockerStandups ==
    {Request("Bearer tok-u1", "c1", [team_id |-> "t1", blockers |-> "blocked by an issue"],
             NoArgs),
     Request("Bearer tok-u1", "c2", [team_id |-> "t2", blockers |-> "all good"], NoArgs)}

SubmitBlockerStandup ==
    \E req \in BlockerStandups,
       env \in Envs({"d1"}, {FALSE}, {Quiet}) :
        LET a == require_auth(Cur, req)
        IN  Apply("submit_standup", req, env,
                  IF a.ok THEN submit_standup(Cur, req, env, a.ctx) ELSE a.reply)

ResolveBodies == {Null, [resolution |-> " fixed "]}
PriorityBodies == {Null, [priority |-> "high"], [priority |-> "urgent"]}
BlockerArgs == {[blocker_id |-> b] : b \in Ids("blockers")}

BlockerReqs(op) ==
    CASE op = "resolve_blocker_v2" ->
            Requests({"c1", "c2"}, ResolveBodies, BlockerArgs, Null)
      [] op = "update_blocker_priority_v2" ->
            Requests({"c1", "c2"}, PriorityBodies, BlockerArgs, [priority |-> "high"])
      [] op = "analyze_blocker_v2" ->
            Requests({"c1", "c2"}, {Null}, BlockerArgs, Null)

BlockerEnvs(op) ==
    Envs({"d2"}, {FALSE}, IF op = "analyze_blocker_v2" THEN LLMsNow(StandupLLMs) ELSE {Quiet})

ResolveBlockerV2 ==
    \E req \in BlockerReqs("resolve_blocker_v2"),
       env \in BlockerEnvs("resolve_blocker_v2") :
        LET a == require_auth(Cur, req)
        IN  Apply("resolve_blocker_v2", req, env,
                  IF a.ok THEN resolve_blocker_v2(Cur, req, env, a.ctx) ELSE a.reply)

UpdateBlockerPriorityV2 ==
    \E req \in BlockerReqs("update_blocker_priority_v2"),
       env \in BlockerEnvs("update_blocker_priority_v2") :
        LET a == require_auth(Cur, req)
        IN  Apply("update_blocker_priority_v2", req, env,
                  IF a.ok THEN update_blocker_priority_v2(Cur, req, env, a.ctx) ELSE a.reply)

AnalyzeBlockerV2 ==
    \E req \in BlockerReqs("analyze_blocker_v2"),
       env \in BlockerEnvs("analyze_blocker_v2") :
        LET a == require_auth(Cur, req)
        IN  Apply("analyze_blocker_v2", req, env,
                  IF a.ok THEN analyze_blocker_v2(Cur, req, env, a.ctx) ELSE a.reply)

\* GET /blockers/active?team_id=...
ActiveReqs ==
    {Request("Bearer tok-u1", c, Null, [team_id |-> t]) :
        c \in {"c1", "c2"}, t \in {"t1", "t2", None}}

GetActiveBlockersV2 ==
    \E req \in ActiveReqs,
       env \in BlockerEnvs("get_active_blockers_v2") :
        LET a == require_auth(Cur, req)
        IN  Apply("get_active_blockers_v2", req, env,
                  IF a.ok THEN get_active_blockers_v2(Cur, req, env, a.ctx) ELSE a.reply)

NextBlockers ==
    \/ SubmitBlockerStandup
    \/ GetActiveBlockersV2
    \/ ResolveBlockerV2
    \/ UpdateBlockerPriorityV2
    \/ AnalyzeBlockerV2

SpecBlockers == InitStandup /\ [][NextBlockers]_vars

(***************************************************************************)
(* SpecSprint: sprints and their tasks, and the deletion of teams, by the  *)
(* owners of the two teams, each sending either company's id.              *)
(***************************************************************************)
RequestsBy(tokens, companies, bodies, args) ==
    {Request(a, c, j, g) : a \in tokens, c \in companies, j \in bodies, g \in args}

SprintBodies ==
    {Null, [team_id |-> "t1", name |-> "S1"],
     [team_id |-> "t1", name |-> "S1", startDate |-> "d1", endDate |-> "d9"]}

TaskBodies ==
    {Null, [sprint_id |-> "sp1"],
     [sprint_id |-> "sp1", title |-> "A"],
     [sprint_id |-> "sp1", title |-> "B", status |-> "done", estimate |-> [str |-> " 3 "]]}

TaskUpdates ==
    {Null, [status |-> "done", estimate |-> [str |-> "2"], sprint_id |-> "sp2",
            company_id |-> "c2"]}

SprintArgs == {[sprint_id |-> i] : i \in {"sp1", "sp2"}}
TaskArgs == {[task_id |-> i] : i \in Ids("tasks")}
TeamArgs == {[team_id |-> i] : i \in Ids("teams")}

SprintOps == {"create_sprint", "complete_sprint", "create_task", "update_task",
              "delete_task", "delete_team"}

SprintReqs(op) ==
    CASE op = "create_sprint" ->
            RequestsBy({"Bearer tok-u1"}, {"c1"}, SprintBodies, {NoArgs})
      [] op = "complete_sprint" ->
            RequestsBy({"Bearer tok-u1"}, {"c1", "c2"}, {Null}, SprintArgs)
      [] op = "create_task" ->
            RequestsBy({"Bearer tok-u1"}, {"c1"}, TaskBodies, {NoArgs})
      [] op = "update_task" ->
            RequestsBy({"Bearer tok-u1"}, {"c1", "c2"}, TaskUpdates, TaskArgs)
      [] op = "delete_task" ->
            RequestsBy({"Bearer tok-u1"}, {"c1", "c2"}, {Null}, TaskArgs)
      [] op = "delete_team" ->
            RequestsBy({"Bearer tok-u1"}, {"c1", "c2"}, {Null}, TeamArgs)

\* init_firestore matters to create_sprint only, and only without a client
SprintEnvs(op) ==
    {Env(IF op \in {"create_sprint", "create_task"} THEN "d1" ELSE "d2", f, Quiet, u) :
        f \in FailuresNow,
        u \in IF op = "create_sprint" /\ ~ db THEN BOOLEAN ELSE {FALSE}}

CreateSprint ==
    \E req \in SprintReqs("create_sprint"),
       env \in SprintEnvs("create_sprint") :
        LET a == require_auth(Cur, req)
        IN  Apply("create_sprint", req, env,
                  IF a.ok THEN create_sprint(Cur, req, env, a.ctx) ELSE a.reply)

CompleteSprint ==
    \E req \in SprintReqs("complete_sprint"),
       env \in SprintEnvs("complete_sprint") :
        LET a == require_auth(Cur, req)
        IN  Apply("complete_sprint", req, env,
                  IF a.ok THEN complete_sprint(Cur, req, env, a.ctx) ELSE a.reply)

CreateTask ==
    \E req \in SprintReqs("create_task"),
       env \in SprintEnvs("create_task") :
        LET a == require_auth(Cur, req)
        IN  Apply("create_task", req, env,
                  IF a.ok THEN create_task(Cur, req, env, a.ctx) ELSE a.reply)

UpdateTask ==
    \E req \in SprintReqs("update_task"),
       env \in SprintEnvs("update_task") :
        LET a == require_auth(Cur, req)
        IN  Apply("update_task", req, env,
                  IF a.ok THEN update_task(Cur, req, env, a.ctx) ELSE a.reply)

DeleteTask ==
    \E req \in SprintReqs("delete_task"),
       env \in SprintEnvs("delete_task") :
        LET a == require_auth(Cur, req)
        IN  Apply("delete_task", req, env,
                  IF a.ok THEN delete_task(Cur, req, env, a.ctx) ELSE a.reply)

DeleteTeam ==
    \E req \in SprintReqs("delete_team"),
       env \in SprintEnvs("delete_team") :
        LET a == require_auth(Cur, req)
        IN  Apply("delete_team", req, env,
                  IF a.ok THEN delete_team(Cur, req, env, a.ctx) ELSE a.reply)

NextSprint ==
    \/ CreateSprint
    \/ CompleteSprint
    \/ CreateTask
    \/ UpdateTask
    \/ DeleteTask
    \/ DeleteTeam

SpecSprint == InitStandup /\ [][NextSprint]_vars

(***************************************************************************)
(* SpecTeams: three users creating, joining and deleting teams and         *)
(* removing members, through app.py and through the blueprint.             *)
(***************************************************************************)
TeamBodies == {Null, [name |-> "  "], [name |-> " Ops ", description |-> "on call"]}

MemberArgs ==
    {[team_id |-> t, member_id |-> m] : t \in {"t1", "t3"}, m \in {"u1", "u2", "u3"}}

BlueprintTeamBodies ==
    {Null, [name |-> "  "], [name |-> " Ops ", description |-> "on call"]}

TeamOps == {"create_team", "join_team", "remove_team_member", "delete_team",
            "teams_delete_team", "teams_create_team"}

TeamReqs(op) ==
    CASE op = "create_team" -> RequestsBy({"tok-u2"}, {"c1"}, TeamBodies, {NoArgs})
      [] op = "join_team" ->
            RequestsBy({"tok-u2", "Bearer tok-u3"}, {"c1"}, {Null},
                       {[team_id |-> t] : t \in {"t1", "t3"}})
      [] op = "remove_team_member" ->
            RequestsBy({"Bearer tok-u1", "tok-u2"}, {"c1"}, {Null}, MemberArgs)
      [] op = "delete_team" -> RequestsBy({"Bearer tok-u1", "tok-u2"}, {"c1"}, {Null}, TeamArgs)
      [] op = "teams_delete_team" ->
            RequestsBy({"Bearer tok-u1", "tok-u2"}, {None}, {Null}, TeamArgs)
      [] op = "teams_create_team" ->
            RequestsBy({"tok-u2"}, {"c1"}, BlueprintTeamBodies, {NoArgs})

TeamEnvs(op) ==
    {Env(IF op \in {"create_team", "teams_create_team"} THEN "d1" ELSE "d2", f, Quiet, FALSE) :
        f \in FailuresNow}

CreateTeam ==
    \E req \in TeamReqs("create_team"),
       env \in TeamEnvs("create_team") :
        LET a == require_auth(Cur, req)
        IN  Apply("create_team", req, env,
                  IF a.ok THEN create_team(Cur, req, env, a.ctx) ELSE a.reply)

JoinTeam ==
    \E req \in TeamReqs("join_team"),
       env \in TeamEnvs("join_team") :
        LET a == require_auth(Cur, req)
        IN  Apply("join_team", req, env,
                  IF a.ok THEN join_team(Cur, req, env, a.ctx) ELSE a.reply)

RemoveTeamMember ==
    \E req \in TeamReqs("remove_team_member"),
       env \in TeamEnvs("remove_team_member") :
        LET a == require_auth(Cur, req)
        IN  Apply("remove_team_member", req, env,
                  IF a.ok THEN remove_team_member(Cur, req, env, a.ctx) ELSE a.reply)

DeleteTeamByOwner ==
    \E req \in TeamReqs("delete_team"),
       env \in TeamEnvs("delete_team") :
        LET a == require_auth(Cur, req)
        IN  Apply("delete_team", req, env,
                  IF a.ok THEN delete_team(Cur, req, env, a.ctx) ELSE a.reply)

TeamsDeleteTeam ==
    \E req \in TeamReqs("teams_delete_team"),
       env \in TeamEnvs("teams_delete_team") :
        LET a == verify_token(Cur, req)
        IN  Apply("teams_delete_team", req, env,
                  IF a.ok THEN teams_delete_team(Cur, req, env, a.ctx) ELSE a.reply)

TeamsCreateTeam ==
    \E req \in TeamReqs("teams_create_team"),
       env \in TeamEnvs("teams_create_team") :
        LET a == verify_token(Cur, req)
        IN  Apply("teams_create_team", req, env,
                  IF a.ok THEN teams_create_team(Cur, req, env, a.ctx) ELSE a.reply)

NextTeams ==
    \/ CreateTeam
    \/ TeamsCreateTeam
    \/ JoinTeam
    \/ RemoveTeamMember
    \/ DeleteTeamByOwner
    \/ TeamsDeleteTeam

SpecTeams == InitStandup /\ [][NextTeams]_vars

(***************************************************************************)
(* SpecSocket: two clients joining and leaving rooms, while sprints are    *)
(* created and standups submitted for team c of company a_b.  The client   *)
(* chooses the ids it sends: team b_c of company a is one it may send.     *)
(***************************************************************************)
TeamEvents ==
    {Null, [company_id |-> "a"], [team_id |-> "", company_id |-> "a"],
     [team_id |-> "c", company_id |-> ""], [team_id |-> "c"],
     [team_id |-> "c", company_id |-> "a_b"], [team_id |-> "b_c", company_id |-> "a"]}

SprintEvents == {Null, [sprint_id |-> ""], [sprint_id |-> "sp1"]}

EventsOf(op) == IF op \in {"join_team", "leave_team"} THEN TeamEvents ELSE SprintEvents

\* One socket event handled: the state after it, and the record of it.
DoSocket(op) ==
    \E sid \in Clients, data \in EventsOf(op) :
        Apply(op, [sid |-> sid, data |-> data], Quiet,
              Reply(HandleSocket(op, Cur, sid, data), 0, <<>>))

HandleJoinTeam == DoSocket("join_team")

HandleLeaveTeam == DoSocket("leave_team")

HandleJoinSprint == DoSocket("join_sprint")

HandleLeaveSprint == DoSocket("leave_sprint")

SocketSprints ==
    RequestsBy({"Bearer tok-u1"}, {"a_b"},
               {[team_id |-> "c", name |-> "S1", startDate |-> "d1", endDate |-> "d9"]},
               {NoArgs})

CreateSocketSprint ==
    \E req \in SocketSprints,
       env \in {Env("d1", FALSE, Quiet, TRUE)} :
        LET a == require_auth(Cur, req)
        IN  Apply("create_sprint", req, env,
                  IF a.ok THEN create_sprint(Cur, req, env, a.ctx) ELSE a.reply)

SocketTasks ==
    RequestsBy({"Bearer tok-u1"}, {"a_b"}, {[sprint_id |-> "sp1", title |-> "A"]}, {NoArgs})

CreateSocketTask ==
    \E req \in SocketTasks,
       env \in {Env("d1", FALSE, Quiet, FALSE)} :
        LET a == require_auth(Cur, req)
        IN  Apply("create_task", req, env,
                  IF a.ok THEN create_task(Cur, req, env, a.ctx) ELSE a.reply)

NextSocket ==
    \/ HandleJoinTeam
    \/ HandleLeaveTeam
    \/ HandleJoinSprint
    \/ HandleLeaveSprint
    \/ CreateSocketSprint
    \/ CreateSocketTask

SpecSocket == InitStandup /\ [][NextSocket]_vars

(***************************************************************************)
(* SpecDetect: detect_blockers and detect_blockers_keyword as functions,   *)
(* on a text, a use_ai flag and an LLM behaviour drawn at the start.       *)
(***************************************************************************)
DetectTexts == Texts \cup {None}

InitDetect ==
    /\ db = FALSE
    /\ openai_key \in BOOLEAN
    /\ teams = <<>>
    /\ sprints = <<>>
    /\ tasks = <<>>
    /\ blockers = <<>>
    /\ standups = <<>>
    /\ retrospectives = <<>>
    /\ retrospective_feedback = <<>>
    /\ blocker_resolutions = <<>>
    /\ blocker_escalations = <<>>
    /\ rooms = NoRooms
    /\ last = Start
    /\ inflight = NoneInFlight
    /\ \E text \in DetectTexts, use_ai \in BOOLEAN, llm \in LLMs :
          probe = [fn |-> "input", text |-> text, use_ai |-> use_ai, llm |-> llm]

DetectBlockers ==
    /\ probe.fn = "input"
    /\ probe' = [probe EXCEPT !.fn = "detect_blockers"]
                @@ [result |-> detect_blockers(probe.text, probe.use_ai, openai_key,
                                               probe.llm)]
    /\ UNCHANGED <<db, openai_key, teams, sprints, tasks, blockers, standups,
                   retrospectives, retrospective_feedback, blocker_resolutions,
                   blocker_escalations, rooms, last, inflight>>

DetectBlockersKeyword ==
    /\ probe.fn = "input"
    /\ probe' = [probe EXCEPT !.fn = "detect_blockers_keyword"]
                @@ [result |-> detect_blockers_keyword(probe.text)]
    /\ UNCHANGED <<db, openai_key, teams, sprints, tasks, blockers, standups,
                   retrospectives, retrospective_feedback, blocker_resolutions,
                   blocker_escalations, rooms, last, inflight>>

NextDetect ==
    \/ DetectBlockers
    \/ DetectBlockersKeyword

SpecDetect == InitDetect /\ [][NextDetect]_vars

(***************************************************************************)
(* SpecMembers: the members of team t1 and their roles, through app.py and *)
(* through the blueprint.  t3 is a team that does not exist.               *)
(***************************************************************************)
AddBodies ==
    {Null, [email |-> " "], [email |-> "u2@x.io", role |-> "MANAGER"],
     [email |-> " u3@x.io "], [email |-> "u9@x.io"]}

RoleBodies == {Null, [role |-> "ADMIN"], [role |-> "DEVELOPER"], [role |-> "MANAGER"]}

TeamRoleBodies ==
    {Null, [role |-> "MANAGER"], [member_id |-> "u3", role |-> "ADMIN"],
     [member_id |-> "u3", role |-> "MANAGER"]}

RoleArgs == {[team_id |-> t, member_id |-> m] : t \in {"t1", "t3"}, m \in {"u1", "u2"}}
OneTeamArgs == {[team_id |-> t] : t \in {"t1", "t3"}}

RoleOps == {"add_team_member", "update_member_role", "update_team_member_role"}
MemberOps == RoleOps \cup {"teams_join_team", "teams_leave_team"}

MemberReqs(op) ==
    CASE op = "add_team_member" ->
            RequestsBy({"Bearer tok-u1", "tok-u2"}, {"c1"}, AddBodies, OneTeamArgs)
      [] op = "update_member_role" ->
            RequestsBy({"Bearer tok-u1", "tok-u2"}, {"c1"}, RoleBodies, RoleArgs)
      [] op = "update_team_member_role" ->
            RequestsBy({"Bearer tok-u1", "tok-u2"}, {"c1"}, TeamRoleBodies, OneTeamArgs)
      [] op = "teams_join_team" ->
            RequestsBy({"Bearer tok-u2", "Bearer tok-u3"}, {None}, {Null}, OneTeamArgs)
      [] op = "teams_leave_team" ->
            RequestsBy({"Bearer tok-u1", "Bearer tok-u2", "Bearer tok-u3"}, {None}, {Null},
                       OneTeamArgs)

MemberEnvs(op) == {Env("d2", f, Quiet, FALSE) : f \in FailuresNow}

AddTeamMember ==
    \E req \in MemberReqs("add_team_member"),
       env \in MemberEnvs("add_team_member") :
        LET a == require_auth(Cur, req)
        IN  Apply("add_team_member", req, env,
                  IF a.ok THEN add_team_member(Cur, req, env, a.ctx) ELSE a.reply)

UpdateMemberRole ==
    \E req \in MemberReqs("update_member_role"),
       env \in MemberEnvs("update_member_role") :
        LET a == require_auth(Cur, req)
        IN  Apply("update_member_role", req, env,
                  IF a.ok THEN update_member_role(Cur, req, env, a.ctx) ELSE a.reply)

UpdateTeamMemberRole ==
    \E req \in MemberReqs("update_team_member_role"),
       env \in MemberEnvs("update_team_member_role") :
        LET a == require_auth(Cur, req)
        IN  Apply("update_team_member_role", req, env,
                  IF a.ok THEN update_team_member_role(Cur, req, env, a.ctx) ELSE a.reply)

TeamsJoinTeam ==
    \E req \in MemberReqs("teams_join_team"),
       env \in MemberEnvs("teams_join_team") :
        LET a == verify_token(Cur, req)
        IN  Apply("teams_join_team", req, env,
                  IF a.ok THEN teams_join_team(Cur, req, env, a.ctx) ELSE a.reply)

TeamsLeaveTeam ==
    \E req \in MemberReqs("teams_leave_team"),
       env \in MemberEnvs("teams_leave_team") :
        LET a == verify_token(Cur, req)
        IN  Apply("teams_leave_team", req, env,
                  IF a.ok THEN teams_leave_team(Cur, req, env, a.ctx) ELSE a.reply)

NextMembers ==
    \/ AddTeamMember
    \/ UpdateMemberRole
    \/ UpdateTeamMemberRole
    \/ JoinTeam
    \/ RemoveTeamMember
    \/ TeamsJoinTeam
    \/ TeamsLeaveTeam

SpecMembers == InitStandup /\ [][NextMembers]_vars


(***************************************************************************)
(* SpecOwner: every route that writes the members of a team, on team t1    *)
(* (owner u1) and on the team t3 that create_team makes (owner u2).        *)
(***************************************************************************)
OwnerCallers == {"Bearer tok-u1", "Bearer tok-u2"}
OwnerTeams == {[team_id |-> t] : t \in {"t1", "t3"}}
OwnerMembers == {[team_id |-> t, member_id |-> m] : t \in {"t1", "t3"}, m \in {"u1", "u2"}}

OwnerReqs(op) ==
    CASE op = "create_team" ->
            RequestsBy({"Bearer tok-u2"}, {"c1"}, {[name |-> " Ops ", description |-> "on call"]},
                       {NoArgs})
      [] op = "teams_create_team" ->
            RequestsBy({"Bearer tok-u2"}, {"c1"}, {[name |-> " Ops ", description |-> "on call"]},
                       {NoArgs})
      [] op = "add_team_member" ->
            RequestsBy(OwnerCallers, {"c1"}, {[email |-> " u3@x.io "]}, OwnerTeams)
      [] op = "update_member_role" ->
            RequestsBy(OwnerCallers, {"c1"}, {[role |-> "ADMIN"]}, OwnerMembers)
      [] op = "update_team_member_role" ->
            RequestsBy(OwnerCallers, {"c1"}, {[member_id |-> "u3", role |-> "MANAGER"]},
                       OwnerTeams)
      [] op = "join_team" -> RequestsBy(OwnerCallers, {"c1"}, {Null}, OwnerTeams)
      [] op = "remove_team_member" -> RequestsBy(OwnerCallers, {"c1"}, {Null}, OwnerMembers)
      [] op = "teams_join_team" -> RequestsBy(OwnerCallers, {None}, {Null}, OwnerTeams)
      [] op = "teams_leave_team" -> RequestsBy(OwnerCallers, {None}, {Null}, OwnerTeams)

OwnerEnvs(op) == {Env("d2", f, Quiet, FALSE) : f \in FailuresNow}

OwnerCreateTeam ==
    \E req \in OwnerReqs("create_team"),
       env \in OwnerEnvs("create_team") :
        LET a == require_auth(Cur, req)
        IN  Apply("create_team", req, env,
                  IF a.ok THEN create_team(Cur, req, env, a.ctx) ELSE a.reply)

OwnerTeamsCreateTeam ==
    \E req \in OwnerReqs("teams_create_team"),
       env \in OwnerEnvs("teams_create_team") :
        LET a == verify_token(Cur, req)
        IN  Apply("teams_create_team", req, env,
                  IF a.ok THEN teams_create_team(Cur, req, env, a.ctx) ELSE a.reply)

OwnerAddTeamMember ==
    \E req \in OwnerReqs("add_team_member"),
       env \in OwnerEnvs("add_team_member") :
        LET a == require_auth(Cur, req)
        IN  Apply("add_team_member", req, env,
                  IF a.ok THEN add_team_member(Cur, req, env, a.ctx) ELSE a.reply)

OwnerUpdateMemberRole ==
    \E req \in OwnerReqs("update_member_role"),
       env \in OwnerEnvs("update_member_role") :
        LET a == require_auth(Cur, req)
        IN  Apply("update_member_role", req, env,
                  IF a.ok THEN update_member_role(Cur, req, env, a.ctx) ELSE a.reply)

OwnerUpdateTeamMemberRole ==
    \E req \in OwnerReqs("update_team_member_role"),
       env \in OwnerEnvs("update_team_member_role") :
        LET a == require_auth(Cur, req)
        IN  Apply("update_team_member_role", req, env,
                  IF a.ok THEN update_team_member_role(Cur, req, env, a.ctx) ELSE a.reply)

OwnerJoinTeam ==
    \E req \in OwnerReqs("join_team"),
       env \in OwnerEnvs("join_team") :
        LET a == require_auth(Cur, req)
        IN  Apply("join_team", req, env,
                  IF a.ok THEN join_team(Cur, req, env, a.ctx) ELSE a.reply)

OwnerRemoveTeamMember ==
    \E req \in OwnerReqs("remove_team_member"),
       env \in OwnerEnvs("remove_team_member") :
        LET a == require_auth(Cur, req)
        IN  Apply("remove_team_member", req, env,
                  IF a.ok THEN remove_team_member(Cur, req, env, a.ctx) ELSE a.reply)

OwnerTeamsJoinTeam ==
    \E req \in OwnerReqs("teams_join_team"),
       env \in OwnerEnvs("teams_join_team") :
        LET a == verify_token(Cur, req)
        IN  Apply("teams_join_team", req, env,
                  IF a.ok THEN teams_join_team(Cur, req, env, a.ctx) ELSE a.reply)

OwnerTeamsLeaveTeam ==
    \E req \in OwnerReqs("teams_leave_team"),
       env \in OwnerEnvs("teams_leave_team") :
        LET a == verify_token(Cur, req)
        IN  Apply("teams_leave_team", req, env,
                  IF a.ok THEN teams_leave_team(Cur, req, env, a.ctx) ELSE a.reply)

NextOwner ==
    \/ OwnerCreateTeam
    \/ OwnerTeamsCreateTeam
    \/ OwnerAddTeamMember
    \/ OwnerUpdateMemberRole
    \/ OwnerUpdateTeamMemberRole
    \/ OwnerJoinTeam
    \/ OwnerRemoveTeamMember
    \/ OwnerTeamsJoinTeam
    \/ OwnerTeamsLeaveTeam

SpecOwner == InitStandup /\ [][NextOwner]_vars

(***************************************************************************)
(* SpecRace: the join_team and leave_team of teams.py on team t1, served   *)
(* by threads (async_mode='threading', app.py line 71).  A request reads   *)
(* the team document, and in a later step writes back the members,         *)
(* member_roles and member_joined it computed from what it read; the       *)
(* requests of other users may read and write in between.                  *)
(***************************************************************************)
RaceReq(u) == Request("Bearer tok-" \o u, None, Null, [team_id |-> "t1"])
RaceEnvs == {Env("d2", FALSE, Quiet, FALSE)}

\* team_ref.get(): the document as it is now, or Missing
team_document(team_id) == IF team_id \in DOMAIN teams THEN teams[team_id] ELSE Missing

\* the store as the request saw it: the team document it read, in place of the
\* one there is now
AsRead(team_id, team_doc) ==
    IF team_doc = Missing
    THEN [Cur EXCEPT !.teams = [i \in (DOMAIN @) \ {team_id} |-> @[i]]]
    ELSE [Cur EXCEPT !.teams = (team_id :> team_doc) @@ @]

\* team_ref.update(fields) of each write the handler made, on the documents
\* there are now
RECURSIVE land(_, _)
land(docs, writes) ==
    IF writes = <<>> THEN docs
    ELSE LET w == Head(writes)
         IN  land(IF w.op = "update" /\ w.coll = "teams" /\ w.id \in DOMAIN docs
                  THEN [docs EXCEPT ![w.id] = w.doc @@ @]
                  ELSE docs,
                  Tail(writes))

\* lines 321-322 and 377-378: the request reads the team document
Begin(u, op) ==
    /\ inflight' = [inflight EXCEPT ![u] =
                       [pc |-> "read", op |-> op, req |-> RaceReq(u),
                        team_doc |-> team_document("t1"), done |-> @.done]]
    /\ UNCHANGED <<db, openai_key, teams, sprints, tasks, blockers, standups,
                   retrospectives, retrospective_feedback, blocker_resolutions,
                   blocker_escalations, rooms, last, probe>>

\* the rest of the handler, on what it read: its write and its answer
End(u, out) ==
    /\ teams' = land(teams, out.st.writes)
    /\ last' = [op |-> inflight[u].op, req |-> inflight[u].req, status |-> out.status,
                body |-> out.body, emitted |-> out.st.emitted, writes |-> out.st.writes]
    /\ inflight' = [inflight EXCEPT ![u] =
                       [pc |-> "idle",
                        done |-> IF out.status = 200 THEN inflight[u].op ELSE @.done]]
    /\ UNCHANGED <<db, openai_key, sprints, tasks, blockers, standups, retrospectives,
                   retrospective_feedback, blocker_resolutions, blocker_escalations,
                   rooms, probe>>

BeginJoinTeam ==
    \E u \in Racers :
        /\ inflight[u].pc = "idle"
        /\ Begin(u, "teams_join_team")

EndJoinTeam ==
    \E u \in Racers,
       env \in RaceEnvs :
        /\ inflight[u].pc = "read"
        /\ inflight[u].op = "teams_join_team"
        /\ LET r == inflight[u]
               a == verify_token(Cur, r.req)
           IN  End(u, IF a.ok
                      THEN teams_join_team(AsRead("t1", r.team_doc), r.req, env, a.ctx)
                      ELSE a.reply)

BeginLeaveTeam ==
    \E u \in Racers :
        /\ inflight[u].pc = "idle"
        /\ Begin(u, "teams_leave_team")

EndLeaveTeam ==
    \E u \in Racers,
       env \in RaceEnvs :
        /\ inflight[u].pc = "read"
        /\ inflight[u].op = "teams_leave_team"
        /\ LET r == inflight[u]
               a == verify_token(Cur, r.req)
           IN  End(u, IF a.ok
                      THEN teams_leave_team(AsRead("t1", r.team_doc), r.req, env, a.ctx)
                      ELSE a.reply)

NextRace ==
    \/ BeginJoinTeam
    \/ EndJoinTeam
    \/ BeginLeaveTeam
    \/ EndLeaveTeam

SpecRace == InitStandup /\ [][NextRace]_vars
(***************************************************************************)
(* SpecDegraded: the routes that test db, with and without a Firestore     *)
(* client, on the sprint and the tasks of team t1.                         *)
(***************************************************************************)
ListTeamsReqs ==
    RequestsBy({"Bearer tok-u1", "Bearer tok-u2", "Bearer stale"}, {"c1", "c2"}, {Null},
               {NoArgs})
ListSprintsReqs ==
    RequestsBy({"Bearer tok-u1"}, {"c1", "c2"}, {Null},
               {[team_id |-> t] : t \in {"t1", None}})
CommentBodies == {Null, [author |-> "Una"], [text |-> "nice"]}
CommentReqs == RequestsBy({"Bearer tok-u1"}, {"c1"}, CommentBodies, SprintArgs)
HealthReqs == {Request(None, None, Null, NoArgs)}

DegradedOps == {"get_teams", "get_sprints", "complete_sprint", "add_sprint_comment",
                "submit_retrospective_feedback"}

DegradedReqs(op) ==
    CASE op = "get_teams" -> ListTeamsReqs
      [] op = "get_sprints" -> ListSprintsReqs
      [] op = "add_sprint_comment" -> CommentReqs
      [] op = "api_health" -> HealthReqs
      [] op = "submit_retrospective_feedback" -> StandupReqs(op)
      [] OTHER -> SprintReqs(op)

DegradedEnvs(op) ==
    IF op \in SprintOps THEN SprintEnvs(op) ELSE Envs({"d2"}, FailuresNow, {Quiet})

ApiHealth ==
    \E req \in DegradedReqs("api_health"), env \in DegradedEnvs("api_health") :
        Apply("api_health", req, env, api_health(Cur, req, env, NoContext))

GetTeams ==
    \E req \in DegradedReqs("get_teams"),
       env \in DegradedEnvs("get_teams") :
        LET a == require_auth(Cur, req)
        IN  Apply("get_teams", req, env,
                  IF a.ok THEN get_teams(Cur, req, env, a.ctx) ELSE a.reply)

GetSprints ==
    \E req \in DegradedReqs("get_sprints"),
       env \in DegradedEnvs("get_sprints") :
        LET a == require_auth(Cur, req)
        IN  Apply("get_sprints", req, env,
                  IF a.ok THEN get_sprints(Cur, req, env, a.ctx) ELSE a.reply)

AddSprintComment ==
    \E req \in DegradedReqs("add_sprint_comment"),
       env \in DegradedEnvs("add_sprint_comment") :
        LET a == require_auth(Cur, req)
        IN  Apply("add_sprint_comment", req, env,
                  IF a.ok THEN add_sprint_comment(Cur, req, env, a.ctx) ELSE a.reply)

NextDegraded ==
    \/ ApiHealth
    \/ GetTeams
    \/ GetSprints
    \/ AddSprintComment
    \/ CreateSprint
    \/ CreateTask
    \/ CompleteSprint
    \/ SubmitRetrospectiveFeedback

SpecDegraded == InitStandup /\ [][NextDegraded]_vars

(***************************************************************************)
(* SpecDerived: the /api/blockers routes, on the blockers of a standup of  *)
(* team t1 (company c1) in which two blockers were detected.               *)
(***************************************************************************)
DerivedIds == {"s1_1", "s1_2", "s1", "s9_1"}
DerivedArgs == {[blocker_id |-> b] : b \in DerivedIds}
ResolutionBodies == {Null, [resolution |-> "  "], [resolution |-> " fixed "]}

DerivedOps == {"get_active_blockers", "resolve_blocker", "escalate_blocker"}

DerivedReqs(op) ==
    CASE op = "get_active_blockers" ->
            RequestsBy({"Bearer tok-u1"}, {"c1", "c2"}, {Null},
                       {[team_id |-> t] : t \in {"t1", "t2", None}})
      [] op = "resolve_blocker" ->
            RequestsBy({"Bearer tok-u1", "Bearer tok-u2"}, {"c1", "c2"}, ResolutionBodies,
                       DerivedArgs)
      [] op = "escalate_blocker" ->
            RequestsBy({"Bearer tok-u1"}, {"c1", "c2"}, {Null}, DerivedArgs)

DerivedEnvs(op) == Envs({"d2"}, {FALSE}, {Quiet})

GetActiveBlockers ==
    \E req \in DerivedReqs("get_active_blockers"),
       env \in DerivedEnvs("get_active_blockers") :
        LET a == require_auth(Cur, req)
        IN  Apply("get_active_blockers", req, env,
                  IF a.ok THEN get_active_blockers(Cur, req, env, a.ctx) ELSE a.reply)

ResolveBlocker ==
    \E req \in DerivedReqs("resolve_blocker"), env \in DerivedEnvs("resolve_blocker") :
        LET a == require_auth(Cur, req)
        IN  Apply("resolve_blocker", req, env,
                  IF a.ok THEN resolve_blocker(Cur, req, env, a.ctx) ELSE a.reply)

EscalateBlocker ==
    \E req \in DerivedReqs("escalate_blocker"), env \in DerivedEnvs("escalate_blocker") :
        LET a == require_auth(Cur, req)
        IN  Apply("escalate_blocker", req, env,
                  IF a.ok THEN escalate_blocker(Cur, req, env, a.ctx) ELSE a.reply)

NextDerived ==
    \/ SubmitBlockerStandup
    \/ GetActiveBlockers
    \/ ResolveBlocker
    \/ EscalateBlocker

SpecDerived == InitStandup /\ [][NextDerived]_vars

(***************************************************************************)
(* Properties.  A property of "every request served in this state" is an   *)
(* invariant that evaluates the handler on the state: the actions serve    *)
(* exactly Handle(op, Cur, req, env).                                      *)
(***************************************************************************)
StandupOps == {"submit_standup", "create_retrospective", "submit_retrospective_feedback"}
BlockerOps == {"resolve_blocker_v2", "update_blocker_priority_v2", "analyze_blocker_v2"}
Endpoints == StandupOps \cup BlockerOps \cup SprintOps \cup TeamOps \cup MemberOps

ReqsOf(op) ==
    CASE op \in StandupOps -> StandupReqs(op)
      [] op \in BlockerOps -> BlockerReqs(op)
      [] op = "get_active_blockers_v2" -> ActiveReqs
      [] op \in SprintOps -> SprintReqs(op)
      [] op \in MemberOps -> MemberReqs(op)
      [] OTHER -> TeamReqs(op)

EnvsOf(op) ==
    CASE op \in StandupOps -> StandupEnvs(op)
      [] op \in BlockerOps \cup {"get_active_blockers_v2"} -> BlockerEnvs(op)
      [] op \in SprintOps -> SprintEnvs(op)
      [] op \in MemberOps -> MemberEnvs(op)
      [] OTHER -> TeamEnvs(op)

\* the request carries a token that Firebase verifies
Authenticated(req) == truthy(req.authorization) /\ auth_context(req) # Raised
WithToken(reqs) == {r \in reqs : Authenticated(r)}

\* the requests of reqs with no Authorization header, an empty one, or a token
\* that fails verification
BadAuthHeaders == {None, "", "Bearer stale", "Bearer ", "tok-u9"}
WithoutToken(reqs) == {[r EXCEPT !.authorization = a] : r \in reqs, a \in BadAuthHeaders}

\* the company of the request context (line 198)
CompanyOf(req) == IF req.company = None THEN "default" ELSE req.company
BodyOf(req) == IF req.json = Null THEN <<>> ELSE req.json

AnalyticsWrites(writes) == {i \in DOMAIN writes : writes[i].coll = "user_analytics"}

\* C1: on every endpoint wrapped by require_auth (and on the blueprint's, wrapped
\* by verify_token), a request with no Authorization header or with a token that
\* fails verification is answered 401 and the handler is not run: the state after
\* it is the state before it, nothing is written to Firestore and nothing is
\* emitted.
C1_Unauthorized ==
    /\ \A op \in Endpoints : \A req \in WithoutToken(ReqsOf(op)), env \in EnvsOf(op) :
          LET out == Handle(op, Cur, req, env)
          IN  out.status = 401 /\ out.st = Cur
    /\ (last.op \in Endpoints /\ ~ Authenticated(last.req))
          => last.status = 401 /\ last.writes = <<>> /\ last.emitted = <<>>

\* a stale token was refused on a request that creates a retrospective with a
\* good one
C1_Witness ==
    /\ last.op = "create_retrospective"
    /\ last.req.authorization = "Bearer stale"
    /\ last.status = 401
    /\ retrospectives = <<>>
    /\ Handle("create_retrospective", Cur,
              [last.req EXCEPT !.authorization = "Bearer tok-u1"],
              Env("d1", FALSE, Quiet, FALSE)).st.retrospectives # <<>>

\* the blocker the request names is of another company / does not exist
ForeignBlocker(req) ==
    /\ req.args.blocker_id \in DOMAIN blockers
    /\ Get(blockers[req.args.blocker_id], "company_id", None) # CompanyOf(req)
NoBlocker(req) == req.args.blocker_id \notin DOMAIN blockers

\* C2 as stated: on a blocker of another company the three routes answer 403,
\* leave the blocker unchanged and emit nothing; on an unknown blocker id they
\* answer 404 and create nothing.
C2_AsStated ==
    \A op \in BlockerOps : \A req \in WithToken(ReqsOf(op)), env \in EnvsOf(op) :
        LET out == Handle(op, Cur, req, env)
        IN  /\ ForeignBlocker(req) => /\ out.status = 403
                                      /\ out.st.blockers = blockers
                                      /\ out.st.emitted = <<>>
            /\ NoBlocker(req) => out.status = 404 /\ out.st.writes = <<>>

\* what a blocker route answers before it reads the blocker, if anything
BlockerEarly(op, req) ==
    IF op = "update_blocker_priority_v2"
       /\ Get(BodyOf(req), "priority", None) \notin {"high", "medium", "low"}
    THEN 400
    ELSE IF op = "analyze_blocker_v2" /\ ~ openai_key THEN 503
    ELSE IF ~ db THEN 500
    ELSE 0

\* C2: on a blocker of another company (resp. an unknown blocker id) the three
\* routes answer 403 (resp. 404), unless an earlier check answers first: 400 for
\* a priority that is not high, medium or low, 503 for an analysis without
\* OPENAI_API_KEY, 500 without a Firestore client.  Whichever it is, no document
\* is changed or created and no event is emitted.
C2_Scoped ==
    \A op \in BlockerOps : \A req \in WithToken(ReqsOf(op)), env \in EnvsOf(op) :
        LET out == Handle(op, Cur, req, env)
            early == BlockerEarly(op, req)
        IN  /\ ForeignBlocker(req) => /\ out.status = IF early # 0 THEN early ELSE 403
                                      /\ out.st = Cur
            /\ NoBlocker(req) => /\ out.status = IF early # 0 THEN early ELSE 404
                                 /\ out.st = Cur

\* an active blocker of the other company was asked to be resolved: 403
C2_Witness ==
    /\ last.op = "resolve_blocker_v2"
    /\ last.status = 403
    /\ ForeignBlocker(last.req)
    /\ blockers[last.req.args.blocker_id].status = "active"
    /\ last.emitted = <<>>

\* the documents of coll that are of another company than the request's are in
\* s as they are now
OthersKept(coll, req, s) ==
    \A id \in DOMAIN Cur[coll] :
        Get(Cur[coll][id], "company_id", None) # CompanyOf(req)
           => id \in DOMAIN s[coll] /\ s[coll][id] = Cur[coll][id]

\* C3: update_task, delete_task, complete_sprint and delete_team, called with
\* X-Company-ID C, change and delete no task, sprint or team whose company_id is
\* not C.
C3_TenantScoped ==
    \A op \in {"update_task", "delete_task", "complete_sprint", "delete_team"} :
        \A req \in WithToken(ReqsOf(op)), env \in EnvsOf(op) :
            LET out == Handle(op, Cur, req, env)
            IN  /\ OthersKept("tasks", req, out.st)
                /\ OthersKept("sprints", req, out.st)
                /\ OthersKept("teams", req, out.st)

TeamIdOf(req) == Get(BodyOf(req), "team_id", None)
\* the team the request names does not exist or is of another company
ForeignTeam(req) ==
    /\ truthy(TeamIdOf(req))
    /\ \/ TeamIdOf(req) \notin DOMAIN teams
       \/ Get(teams[TeamIdOf(req)], "company_id", None) # CompanyOf(req)

\* the four collections of claim C4
Documents(s) == <<s.standups, s.blockers, s.retrospectives, s.retrospective_feedback>>

\* C4 as stated: with a team that does not exist or is of another company the
\* three routes answer 403, with no team_id 400, and add no document and emit
\* no event.
C4_AsStated ==
    \A op \in StandupOps : \A req \in WithToken(ReqsOf(op)), env \in EnvsOf(op) :
        LET out == Handle(op, Cur, req, env)
        IN  /\ ForeignTeam(req) => out.status = 403
            /\ ~ truthy(TeamIdOf(req)) => out.status = 400
            /\ (ForeignTeam(req) \/ ~ truthy(TeamIdOf(req)))
                  => Documents(out.st) = Documents(Cur) /\ out.st.emitted = <<>>

\* C4: with a JSON object for a body and a Firestore client, the three routes
\* answer 403 for a team that does not exist or is of another company and 400
\* for no team_id.  Without a client submit_retrospective_feedback answers 503
\* whatever the body, and the other two 500 once a team_id is given; a body that
\* is no JSON object is answered 500.  In each of these cases no document is
\* added to standups, blockers, retrospectives or retrospective_feedback and no
\* event is emitted.
C4_TeamChecked ==
    \A op \in StandupOps : \A req \in WithToken(ReqsOf(op)), env \in EnvsOf(op) :
        LET out == Handle(op, Cur, req, env)
            expected ==
                IF op = "submit_retrospective_feedback" /\ ~ db THEN 503
                ELSE IF req.json = Null THEN 500
                ELSE IF ~ truthy(TeamIdOf(req)) THEN 400
                ELSE IF ~ db THEN 500
                ELSE 403
        IN  (ForeignTeam(req) \/ ~ truthy(TeamIdOf(req)))
               => /\ out.status = expected
                  /\ Documents(out.st) = Documents(Cur)
                  /\ out.st.emitted = <<>>

\* a standup for the team of the other company was refused, after the analytics
\* document of the request was written
C4_Witness ==
    /\ last.op = "submit_standup"
    /\ last.status = 403
    /\ ForeignTeam(last.req)
    /\ TeamIdOf(last.req) \in DOMAIN teams
    /\ AnalyticsWrites(last.writes) # {}
    /\ standups = <<>>

\* C5: whether the user_analytics write of track_user_action succeeds or raises,
\* the request has the same status, the same body, the same events, and leaves
\* the same documents in every collection other than user_analytics.
C5_AnalyticsSwallowed ==
    \A op \in Endpoints : \A req \in ReqsOf(op), env \in EnvsOf(op) :
        LET ok == Handle(op, Cur, req, [env EXCEPT !.analytics_raises = FALSE])
            ko == Handle(op, Cur, req, [env EXCEPT !.analytics_raises = TRUE])
            others(w) == SelectSeq(w, LAMBDA x : x.coll # "user_analytics")
        IN  /\ ok.status = ko.status
            /\ ok.body = ko.body
            /\ [ok.st EXCEPT !.writes = <<>>] = [ko.st EXCEPT !.writes = <<>>]
            /\ others(ok.st.writes) = others(ko.st.writes)

\* a standup was stored and answered 200 although its analytics write raised
C5_Witness ==
    /\ last.op = "submit_standup"
    /\ last.status = 200
    /\ db
    /\ AnalyticsWrites(last.writes) = {}
    /\ standups # <<>>
    /\ last.emitted # <<>>

ErrorStatuses == {400, 401, 403, 404, 500, 503}

\* C6: every error response of a handler is a JSON object with success = false
\* and an error field, and its status is one of 400, 401, 403, 404, 500, 503.
C6_ErrorShape ==
    (last.op \in Endpoints /\ Authenticated(last.req) /\ last.status >= 400)
       => /\ last.status \in ErrorStatuses
          /\ "error" \in DOMAIN last.body
          /\ "success" \in DOMAIN last.body
          /\ last.body.success = FALSE

\* the LLM call or the parsing of its reply fails
LLMFailed(llm) == llm.kind \in {"raise", "badjson", "nondict"}

\* C7: detect_blockers raises for no text; for an empty text it answers no
\* blockers, and for a non-empty one it answers what detect_blockers_keyword
\* answers whenever use_ai is false, OPENAI_API_KEY is unset, or the LLM call or
\* the parsing of its reply fails.
C7_KeywordFallback ==
    probe.fn = "detect_blockers"
       => /\ probe.result # Raised
          /\ ~ truthy(probe.text)
                => probe.result = [has_blockers |-> FALSE, blockers |-> <<>>,
                                   severity |-> "none", blocker_count |-> 0]
          /\ (truthy(probe.text)
              /\ (~ probe.use_ai \/ ~ openai_key \/ LLMFailed(probe.llm)))
                => probe.result = detect_blockers_keyword(probe.text)

\* the reply of the LLM could not be parsed, and the keyword of the text was
\* found all the same
C7_Witness ==
    /\ probe.fn = "detect_blockers"
    /\ probe.use_ai /\ openai_key
    /\ probe.llm.kind = "badjson"
    /\ probe.text = "Stuck on API"
    /\ probe.result.blocker_count = 1
    /\ probe.result.blockers[1].keyword = "stuck"

\* the companies and teams a client may name, and the pair an event names
Pairs == {<<"a_b", "c">>, <<"a", "b_c">>, <<"default", "c">>}
PairOf(data) == <<Get(data, "company_id", "default"), Get(data, "team_id", None)>>

\* C8, for team rooms: a client is in room team_{company}_{team} exactly when its
\* last join_team or leave_team for that company and team was a join.  Step by
\* step: such an event of the client puts it in the room (join) or out of it
\* (leave), and nothing else changes whether it is in the room.
C8_RoomsFollowEvents ==
    [][\A c \in Clients : \A p \in Pairs :
          IF /\ last'.op \in {"join_team", "leave_team"}
             /\ last' # last
             /\ last'.req.sid = c
             /\ last'.req.data # Null
             /\ PairOf(last'.req.data) = p
          THEN (team_room(p[1], p[2]) \in rooms'[c]) <=> (last'.op = "join_team")
          ELSE (team_room(p[1], p[2]) \in rooms'[c]) <=> (team_room(p[1], p[2]) \in rooms[c])
      ]_vars

\* the user the token of the request is of
CallerOf(req) == auth_context(req).user_id
OwnerOf(team_id) == Get(teams[team_id], "owner_id", None)

DeleteOps == {"delete_team", "teams_delete_team"}

\* C9 as stated: delete_team deletes the team only for its owner; any other
\* caller is answered 403 and the team is unchanged; an unknown team id is
\* answered 404.
C9_AsStated ==
    \A op \in DeleteOps : \A req \in WithToken(ReqsOf(op)), env \in EnvsOf(op) :
        LET out == Handle(op, Cur, req, env)
            team_id == req.args.team_id
        IN  /\ out.st.teams # teams
                  => /\ team_id \in DOMAIN teams
                     /\ CallerOf(req) = OwnerOf(team_id)
                     /\ out.st.teams = without(teams, team_id)
            /\ (team_id \in DOMAIN teams /\ CallerOf(req) # OwnerOf(team_id))
                  => out.status = 403 /\ out.st.teams = teams
            /\ team_id \notin DOMAIN teams => out.status = 404

\* C9: with a Firestore client, delete_team deletes the team (and nothing else)
\* for its owner and answers 200; any other caller is answered 403 and an
\* unknown team id 404, and no team is changed.  Without a client (app.py only:
\* the blueprint always has one) every call is answered 500 and no team is
\* changed.
C9_OwnerOnly ==
    \A op \in DeleteOps : \A req \in WithToken(ReqsOf(op)), env \in EnvsOf(op) :
        LET out == Handle(op, Cur, req, env)
            team_id == req.args.team_id
        IN  IF op = "delete_team" /\ ~ db
            THEN out.status = 500 /\ out.st = Cur
            ELSE IF team_id \notin DOMAIN teams
            THEN out.status = 404 /\ out.st = Cur
            ELSE IF CallerOf(req) # OwnerOf(team_id)
            THEN out.status = 403 /\ out.st = Cur
            ELSE out.status = 200 /\ out.st.teams = without(teams, team_id)

\* the owner of a team was refused the deletion of the other owner's team, which
\* is still there
C9_Witness ==
    /\ last.op = "delete_team"
    /\ last.status = 403
    /\ last.req.args.team_id \in DOMAIN teams
    /\ CallerOf(last.req) # OwnerOf(last.req.args.team_id)
    /\ last.writes = <<>>

IsMember(team, user_id) ==
    \E i \in 1..Len(Get(team, "members", <<>>)) : team.members[i] = user_id

\* what remove_team_member leaves of a team: the target is in none of members,
\* member_roles and member_joined; the others are where and what they were
Removed(before, after, member_id) ==
    /\ ~ IsMember(after, member_id)
    /\ member_id \notin DOMAIN Get(after, "member_roles", <<>>)
    /\ member_id \notin DOMAIN Get(after, "member_joined", <<>>)
    /\ after.members = SelectSeq(before.members, LAMBDA m : m # member_id)
    /\ \A m \in DOMAIN before.member_roles \ {member_id} :
          m \in DOMAIN after.member_roles /\ after.member_roles[m] = before.member_roles[m]
    /\ DOMAIN after.member_roles \subseteq DOMAIN before.member_roles
    /\ after.owner_id = before.owner_id

\* C10 as stated: remove_team_member succeeds only for the owner and a target
\* that is not the owner; another caller is answered 403 and the owner asking to
\* remove the owner 400, the team unchanged; after a success the target is in
\* none of members, member_roles, member_joined and the others are unchanged.
C10_AsStated ==
    \A req \in WithToken(ReqsOf("remove_team_member")), env \in EnvsOf("remove_team_member") :
        LET out == Handle("remove_team_member", Cur, req, env)
            team_id == req.args.team_id
            member_id == req.args.member_id
        IN  team_id \in DOMAIN teams
               => IF CallerOf(req) # OwnerOf(team_id)
                  THEN out.status = 403 /\ out.st.teams = teams
                  ELSE IF member_id = OwnerOf(team_id)
                  THEN out.status = 400 /\ out.st.teams = teams
                  ELSE out.status = 200 => Removed(teams[team_id], out.st.teams[team_id],
                                                   member_id)

\* C10: with a Firestore client and an existing team, remove_team_member answers
\* 403 to a caller who is not the owner, 400 to the owner asking to remove the
\* owner, the team unchanged, and otherwise 200: then the target is in none of
\* members, member_roles, member_joined, the other members and their roles are
\* unchanged, and no other team is changed.  Without a client it answers 500, and
\* for an unknown team 404, and changes nothing.
C10_OwnerRemoves ==
    \A req \in WithToken(ReqsOf("remove_team_member")), env \in EnvsOf("remove_team_member") :
        LET out == Handle("remove_team_member", Cur, req, env)
            team_id == req.args.team_id
            member_id == req.args.member_id
        IN  IF ~ db THEN out.status = 500 /\ out.st = Cur
            ELSE IF team_id \notin DOMAIN teams THEN out.status = 404 /\ out.st = Cur
            ELSE IF CallerOf(req) # OwnerOf(team_id) THEN out.status = 403 /\ out.st = Cur
            ELSE IF member_id = OwnerOf(team_id) THEN out.status = 400 /\ out.st = Cur
            ELSE /\ out.status = 200
                 /\ Removed(teams[team_id], out.st.teams[team_id], member_id)
                 /\ \A t \in DOMAIN teams \ {team_id} :
                       t \in DOMAIN out.st.teams /\ out.st.teams[t] = teams[t]
                 /\ DOMAIN out.st.teams = DOMAIN teams

\* the owner removed a member of a team of three, and the third is still in it
C10_Witness ==
    /\ last.op = "remove_team_member"
    /\ last.status = 200
    /\ \E i \in 1..Len(last.writes) :
          /\ last.writes[i].coll = "teams"
          /\ IsMember(last.writes[i].before, last.req.args.member_id)
          /\ Len(last.writes[i].before.members) = 3
          /\ last.req.args.member_id \in DOMAIN last.writes[i].before.member_joined
    /\ Len(teams[last.req.args.team_id].members) = 2
    /\ ~ IsMember(teams[last.req.args.team_id], last.req.args.member_id)

\* the caller's entry in the member_roles of the team is OWNER or MANAGER
Privileged(team_id, req) ==
    /\ team_id \in DOMAIN teams
    /\ user_role(teams[team_id], CallerOf(req)) \in {"OWNER", "MANAGER"}

\* the role a request to a role route asks for is none of the three
BadRole(op, req) == op # "add_team_member" /\ Get(BodyOf(req), "role", None) \notin Roles

\* the body has what the route reads before it looks at the team
WellFormed(op, req) ==
    CASE op = "add_team_member" -> strip(Get(req.json, "email", "")) # ""
      [] op = "update_member_role" -> Get(req.json, "role", None) \in Roles
      [] op = "update_team_member_role" ->
            /\ truthy(Get(req.json, "member_id", None))
            /\ Get(req.json, "role", None) \in Roles

\* C11 as stated: add_team_member, update_member_role and update_team_member_role
\* change a team only for a caller whose role in it is OWNER or MANAGER; any
\* other caller is answered 403 (or 400, for a role outside the three), the team
\* unchanged; a role outside the three is answered 400 by the role routes.
C11_AsStated ==
    \A op \in RoleOps : \A req \in WithToken(ReqsOf(op)), env \in EnvsOf(op) :
        LET out == Handle(op, Cur, req, env)
        IN  /\ out.st.teams # teams => Privileged(req.args.team_id, req)
            /\ ~ Privileged(req.args.team_id, req)
                  => /\ out.status = 403 \/ (BadRole(op, req) /\ out.status = 400)
                     /\ out.st.teams = teams
            /\ BadRole(op, req) => out.status = 400 /\ out.st.teams = teams

\* C11: the three routes change a team only for a caller whose role in it is
\* OWNER or MANAGER, and then that team only.  With a Firestore client, a JSON
\* object as body with what the route requires, and an existing team, any other
\* caller is answered 403.  Before that a body that is no object is answered 500,
\* a missing email or member_id or a role outside the three 400, a missing
\* client 500 and an unknown team 404.  Whatever is refused changes nothing.
C11_Privileged ==
    \A op \in RoleOps : \A req \in WithToken(ReqsOf(op)), env \in EnvsOf(op) :
        LET out == Handle(op, Cur, req, env)
            team_id == req.args.team_id
        IN  IF req.json = Null THEN out.status = 500 /\ out.st = Cur
            ELSE IF ~ WellFormed(op, req) THEN out.status = 400 /\ out.st = Cur
            ELSE IF ~ db THEN out.status = 500 /\ out.st = Cur
            ELSE IF team_id \notin DOMAIN teams THEN out.status = 404 /\ out.st = Cur
            ELSE IF ~ Privileged(team_id, req) THEN out.status = 403 /\ out.st = Cur
            ELSE /\ DOMAIN out.st.teams = DOMAIN teams
                 /\ \A t \in DOMAIN teams \ {team_id} : out.st.teams[t] = teams[t]
                 /\ out.st.teams # teams => out.status = 200

\* a user with no role in team t1 asked for a role and was refused, and a manager
\* the owner made is in the team
C11_Witness ==
    /\ last.op \in RoleOps
    /\ last.status = 403
    /\ last.writes = <<>>
    /\ ~ Privileged(last.req.args.team_id, last.req)
    /\ last.req.args.team_id \in DOMAIN teams
    /\ \E m \in DOMAIN teams[last.req.args.team_id].member_roles :
          teams[last.req.args.team_id].member_roles[m] = "MANAGER"

CreateOps == {"create_team", "teams_create_team"}

\* what C12 says of one request to create a team
CreatesOneTeam(op, req, env) ==
    LET out == Handle(op, Cur, req, env)
        caller == CallerOf(req)
        new == DOMAIN out.st.teams \ DOMAIN teams
    IN  IF strip(Get(req.json, "name", "")) = ""
        THEN out.status = 400 /\ out.st.teams = teams
        ELSE /\ out.status = 200
             /\ Cardinality(new) = 1
             /\ \A t \in DOMAIN teams : t \in DOMAIN out.st.teams /\ out.st.teams[t] = teams[t]
             /\ \A t \in new :
                   /\ out.st.teams[t].owner_id = caller
                   /\ out.st.teams[t].members = <<caller>>
                   /\ out.st.teams[t].member_roles = (caller :> "OWNER")
                   /\ out.st.teams[t].company_id = CompanyOf(req)
             /\ out.body.team.role = "OWNER"
             /\ out.body.team.member_count = 1

\* C12: create_team, in app.py and in teams.py, given a JSON object as body (and
\* a Firestore client, in app.py), answers 400 and creates no team when the name
\* is empty after trimming; otherwise it creates exactly one team, owned by the
\* caller, with members [caller], member_roles {caller: OWNER} and the company of
\* the request, and reports role OWNER and member_count 1.
C12_CreateTeam ==
    \A op \in CreateOps : \A req \in WithToken(ReqsOf(op)), env \in EnvsOf(op) :
        (/\ req.json # Null
         /\ db \/ op \in BlueprintOps
         /\ ~ Handle(op, Cur, req, env).st.full)
            => CreatesOneTeam(op, req, env)

JoinOps == {"join_team", "teams_join_team"}

NoDuplicateMembers ==
    \A t \in DOMAIN teams :
        \A i, j \in 1..Len(Get(teams[t], "members", <<>>)) :
            teams[t].members[i] = teams[t].members[j] => i = j

\* what a join leaves of a team: the user is the last of members, a DEVELOPER,
\* with the time of the join; the others are where and what they were
Joined(before, after, user_id, now) ==
    /\ after.members = Append(before.members, user_id)
    /\ after.member_roles[user_id] = "DEVELOPER"
    /\ after.member_joined[user_id] = now
    /\ DOMAIN after.member_roles = DOMAIN before.member_roles \cup {user_id}
    /\ \A m \in DOMAIN before.member_roles \ {user_id} :
          after.member_roles[m] = before.member_roles[m]
    /\ DOMAIN after.member_joined = DOMAIN Get(before, "member_joined", <<>>) \cup {user_id}
    /\ \A m \in DOMAIN Get(before, "member_joined", <<>>) \ {user_id} :
          after.member_joined[m] = before.member_joined[m]
    /\ after.owner_id = before.owner_id

\* C13 as stated: join_team, in app.py and in teams.py, answers 400 to a member
\* of the team and leaves the team unchanged, and adds any other user as a
\* DEVELOPER with the time of the join, the others unchanged; and no team has a
\* user twice in members.
C13_AsStated ==
    /\ NoDuplicateMembers
    /\ \A op \in JoinOps : \A req \in WithToken(ReqsOf(op)), env \in EnvsOf(op) :
          LET out == Handle(op, Cur, req, env)
              team_id == req.args.team_id
          IN  team_id \in DOMAIN teams
                 => IF IsMember(teams[team_id], CallerOf(req))
                    THEN out.status = 400 /\ out.st.teams = teams
                    ELSE /\ out.status = 200
                         /\ Joined(teams[team_id], out.st.teams[team_id], CallerOf(req),
                                   env.now)

\* C13: the same where join_team has a Firestore client (teams.py's always has
\* one); without it app.py's join_team answers 500 and changes nothing.  A join
\* changes no other team, and after any sequence of joins, additions, removals,
\* leaves and role updates no team has a user twice in members.
C13_JoinOnce ==
    /\ NoDuplicateMembers
    /\ \A op \in JoinOps : \A req \in WithToken(ReqsOf(op)), env \in EnvsOf(op) :
          LET out == Handle(op, Cur, req, env)
              team_id == req.args.team_id
          IN  team_id \in DOMAIN teams
                 => IF op = "join_team" /\ ~ db THEN out.status = 500 /\ out.st = Cur
                    ELSE IF IsMember(teams[team_id], CallerOf(req))
                    THEN out.status = 400 /\ out.st = Cur
                    ELSE /\ out.status = 200
                         /\ Joined(teams[team_id], out.st.teams[team_id], CallerOf(req),
                                   env.now)
                         /\ DOMAIN out.st.teams = DOMAIN teams
                         /\ \A t \in DOMAIN teams \ {team_id} : out.st.teams[t] = teams[t]

\* a member of a team of three asked to join it again and was refused
C13_Witness ==
    /\ last.op \in JoinOps
    /\ last.status = 400
    /\ last.writes = <<>>
    /\ last.req.args.team_id \in DOMAIN teams
    /\ IsMember(teams[last.req.args.team_id], CallerOf(last.req))
    /\ CallerOf(last.req) # OwnerOf(last.req.args.team_id)
    /\ Len(teams[last.req.args.team_id].members) = 3
    /\ teams[last.req.args.team_id].member_roles[CallerOf(last.req)] = "DEVELOPER"

\* C14: leave_team of teams.py, on an existing team, answers 400 and leaves the
\* team unchanged when the caller is not in members or is the team's owner_id;
\* otherwise it answers 200, the caller is in none of members, member_roles and
\* member_joined, every other member is where it was with the role it had, and
\* no other team is changed.
C14_Leave ==
    \A req \in WithToken(ReqsOf("teams_leave_team")), env \in EnvsOf("teams_leave_team") :
        LET out == Handle("teams_leave_team", Cur, req, env)
            team_id == req.args.team_id
            caller == CallerOf(req)
        IN  team_id \in DOMAIN teams
               => IF ~ IsMember(teams[team_id], caller) \/ OwnerOf(team_id) = caller
                  THEN out.status = 400 /\ out.st = Cur
                  ELSE /\ out.status = 200
                       /\ Removed(teams[team_id], out.st.teams[team_id], caller)
                       /\ DOMAIN out.st.teams = DOMAIN teams
                       /\ \A t \in DOMAIN teams \ {team_id} : out.st.teams[t] = teams[t]

\* a member of a team of three left it, and the third, a manager, is still one
C14_Witness ==
    /\ last.op = "teams_leave_team"
    /\ last.status = 200
    /\ \E i \in 1..Len(last.writes) :
          /\ last.writes[i].coll = "teams"
          /\ Len(last.writes[i].before.members) = 3
          /\ IsMember(last.writes[i].before, CallerOf(last.req))
          /\ CallerOf(last.req) \in DOMAIN last.writes[i].before.member_roles
    /\ Len(teams[last.req.args.team_id].members) = 2
    /\ ~ IsMember(teams[last.req.args.team_id], CallerOf(last.req))
    /\ \E m \in DOMAIN teams[last.req.args.team_id].member_roles :
          /\ teams[last.req.args.team_id].member_roles[m] = "MANAGER"
          /\ IsMember(teams[last.req.args.team_id], m)

\* the story points of a task: its estimate, 1 without one
PointsOf(k) == IF "estimate" \in DOMAIN tasks[k] THEN tasks[k].estimate.int ELSE 1
StatusOf(k) == Get(tasks[k], "status", "todo")
TasksOf(sprint_id) == {k \in DOMAIN tasks : Get(tasks[k], "sprint_id", None) = sprint_id}

\* C15: with a Firestore client, complete_sprint on an existing sprint answers
\* 200, sets the sprint's status to 'completed' and stores final_analytics with
\* total_story_points the sum of the estimates of the sprint's tasks (1 without
\* estimate), completed_story_points that sum over the tasks that are 'done',
\* velocity the same, total_tasks the number of tasks, task_counts the tasks per
\* status, and completion_percentage 0 when the total is 0; on an unknown sprint
\* it answers 404 and changes no sprint and no task and emits nothing.
C15_FinalAnalytics ==
    \A req \in WithToken(ReqsOf("complete_sprint")), env \in EnvsOf("complete_sprint") :
        LET out == Handle("complete_sprint", Cur, req, env)
            sprint_id == req.args.sprint_id
            ts == TasksOf(sprint_id)
            done == {k \in ts : StatusOf(k) = "done"}
            fa == out.st.sprints[sprint_id].final_analytics
        IN  db => IF sprint_id \in DOMAIN sprints
                  THEN /\ out.status = 200
                       /\ out.st.sprints[sprint_id].status = "completed"
                       /\ fa.total_story_points = Sum([k \in ts |-> PointsOf(k)], ts)
                       /\ fa.completed_story_points = Sum([k \in done |-> PointsOf(k)], done)
                       /\ fa.velocity = fa.completed_story_points
                       /\ fa.total_tasks = Cardinality(ts)
                       /\ \A st \in {"todo", "in_progress", "done"} :
                             fa.task_counts[st] = Cardinality({k \in ts : StatusOf(k) = st})
                       /\ fa.total_story_points = 0 => fa.completion_tenths = 0
                  ELSE /\ out.status = 404
                       /\ out.st.sprints = sprints
                       /\ out.st.tasks = tasks
                       /\ out.st.emitted = <<>>

\* the active blockers of a team of a company, and the ones a reply lists
ActiveOf(company_id, team_id) ==
    {i \in DOMAIN blockers :
        /\ Get(blockers[i], "company_id", None) = company_id
        /\ Get(blockers[i], "team_id", None) = team_id
        /\ Get(blockers[i], "status", None) = "active"}

Listed(body) == {body.blockers[n].id : n \in 1..Len(body.blockers)}

\* a reply that lists exactly the active blockers of the team of the request,
\* each once and as it is stored
ListsActive(req, out) ==
    /\ out.status = 200
    /\ Listed(out.body) = ActiveOf(CompanyOf(req), req.args.team_id)
    /\ Len(out.body.blockers) = Cardinality(Listed(out.body))
    /\ out.body.total_count = Len(out.body.blockers)
    /\ \A n \in 1..Len(out.body.blockers) :
          out.body.blockers[n] = [id |-> out.body.blockers[n].id]
                                    @@ blockers[out.body.blockers[n].id]
    /\ out.st = Cur

\* no step makes a resolved blocker anything else, or deletes it
StaysResolved ==
    \A b \in DOMAIN blockers :
        Get(blockers[b], "status", None) = "resolved"
            => b \in DOMAIN blockers' /\ Get(blockers'[b], "status", None) = "resolved"

\* C16 as stated: get_active_blockers_v2 for company C and team T returns exactly
\* the blockers with company_id C, team_id T and status 'active', and a blocker
\* that was resolved is resolved ever after, so it is in no later result.
C16_AsStated ==
    /\ [](\A req \in WithToken(ReqsOf("get_active_blockers_v2")),
             env \in EnvsOf("get_active_blockers_v2") :
             truthy(req.args.team_id)
                => ListsActive(req, Handle("get_active_blockers_v2", Cur, req, env)))
    /\ [][StaysResolved]_vars

\* C16: with a Firestore client, get_active_blockers_v2 for company C and team T
\* returns exactly the blockers with company_id C, team_id T and status 'active',
\* and changes nothing; without a client it answers 500.  A blocker that was
\* resolved is resolved ever after, so it is in no later result.
C16_ActiveBlockers ==
    /\ [](\A req \in WithToken(ReqsOf("get_active_blockers_v2")),
             env \in EnvsOf("get_active_blockers_v2") :
             LET out == Handle("get_active_blockers_v2", Cur, req, env)
             IN  truthy(req.args.team_id)
                    => IF db THEN ListsActive(req, out)
                       ELSE out.status = 500 /\ out.st = Cur)
    /\ [][StaysResolved]_vars

\* a team has an active blocker and a resolved one, and was told of the active
\* one only
C16_Witness ==
    /\ last.op = "get_active_blockers_v2"
    /\ last.status = 200
    /\ Len(last.body.blockers) = 1
    /\ \E b \in DOMAIN blockers :
          /\ blockers[b].status = "resolved"
          /\ blockers[b].team_id = last.req.args.team_id
          /\ blockers[b].company_id = CompanyOf(last.req)
          /\ b \notin Listed(last.body)

\* the blockers documents a request added, and the blocker_detected events of it
BlockerAdds(writes) == SelectSeq(writes, LAMBDA w : w.coll = "blockers" /\ w.op = "add")
Detections(emitted) == SelectSeq(emitted, LAMBDA e : e.event = "blocker_detected")

Blank(text) == ~ truthy(text) \/ strip(text) = ""

\* the number of blockers documents the claim gives a successful standup
Expected(req, out) ==
    IF Blank(Get(req.json, "blockers", "")) THEN 0
    ELSE IF out.body.blocker_analysis.blockers # <<>>
         THEN Len(out.body.blocker_analysis.blockers)
         ELSE 1

\* the first n of the documents of the claim were created, active, one per
\* blocker of the analysis in its order or the generic one, one event for each
CreatedBlockers(req, out, n) ==
    LET adds == BlockerAdds(out.st.writes)
        events == Detections(out.st.emitted)
        detected == out.body.blocker_analysis.blockers
    IN  /\ Len(adds) = n
        /\ Len(events) = n
        /\ \A i \in 1..n :
              /\ adds[i].doc.status = "active"
              /\ adds[i].id \in DOMAIN out.st.blockers
              /\ out.st.blockers[adds[i].id] = adds[i].doc
              /\ events[i].data.blocker_id = adds[i].id
              /\ IF detected # <<>>
                 THEN /\ Get(detected[i], "keyword", None) \in {adds[i].doc.keyword, None, ""}
                      /\ adds[i].doc.severity = Get(detected[i], "severity", "medium")
                 ELSE adds[i].doc.keyword = "blocker" /\ adds[i].doc.severity = "medium"
        /\ \A i, j \in 1..n : adds[i].id = adds[j].id => i = j

FrameUpdates ==
    TaskUpdates
    \cup {[title |-> "C"], [assignee |-> "u2"], [estimate |-> [int |-> 5]],
          [sprint_id |-> "sp2", created_by |-> "u9", created_at |-> "d0", id |-> "k9"],
          [note |-> "n"]}

FrameReqs == RequestsBy({"Bearer tok-u1"}, {"c1", "c2"}, FrameUpdates, TaskArgs)

\* the task of the request is as it was but for the allowed fields of the body
\* and updated_at, every other task is as it was, and no task was created
TaskFrame(req, out) ==
    LET id == req.args.task_id
        may == (allowed_fields \cap DOMAIN BodyOf(req)) \cup {"updated_at"}
    IN  /\ DOMAIN out.st.tasks = DOMAIN tasks
        /\ \A k \in DOMAIN tasks : k # id => out.st.tasks[k] = tasks[k]
        /\ id \in DOMAIN tasks =>
              /\ DOMAIN out.st.tasks[id] \subseteq DOMAIN tasks[id] \cup may
              /\ \A f \in DOMAIN tasks[id] :
                    /\ f \in DOMAIN out.st.tasks[id]
                    /\ f \notin may => out.st.tasks[id][f] = tasks[id][f]
              /\ \A f \in {"sprint_id", "company_id", "created_by", "created_at"} :
                    f \in DOMAIN tasks[id] /\ out.st.tasks[id][f] = tasks[id][f]
        /\ out.st.sprints = sprints

\* a successful update_task wrote the allowed fields of the body and updated_at
TaskWritten(req, env, out) ==
    out.status = 200 =>
        /\ \A f \in allowed_fields \cap DOMAIN BodyOf(req) :
              out.st.tasks[req.args.task_id][f] = req.json[f]
        /\ out.st.tasks[req.args.task_id].updated_at = env.now

\* C18 as stated: update_task changes only the fields title, assignee, status and
\* estimate that are in the body, and updated_at; sprint_id, company_id,
\* created_by and created_at of the task are unchanged for every body; an
\* unknown task id is answered 404 and no task is created.
C18_AsStated ==
    \A req \in FrameReqs, env \in EnvsOf("update_task") :
        LET out == Handle("update_task", Cur, req, env)
        IN  /\ TaskFrame(req, out)
            /\ TaskWritten(req, env, out)
            /\ req.args.task_id \notin DOMAIN tasks => out.status = 404

\* C18: update_task changes only the fields title, assignee, status and estimate
\* that are in the body, and updated_at; sprint_id, company_id, created_by and
\* created_at of the task are unchanged for every body; with a Firestore client
\* and a JSON object as body an unknown task id is answered 404, without a
\* client or with a null body every task id is answered 500, and in neither is
\* a task created.
C18_UpdateTaskFrame ==
    \A req \in FrameReqs, env \in EnvsOf("update_task") :
        LET out == Handle("update_task", Cur, req, env)
        IN  /\ TaskFrame(req, out)
            /\ TaskWritten(req, env, out)
            /\ out.status = IF ~ db \/ req.json = Null THEN 500
                            ELSE IF req.args.task_id \in DOMAIN tasks THEN 200 ELSE 404

\* a task was updated with a body that names another sprint and company, and
\* kept its own
C18_Witness ==
    /\ last.op = "update_task"
    /\ last.status = 200
    /\ last.req.json.sprint_id = "sp2"
    /\ tasks[last.req.args.task_id].sprint_id = "sp1"
    /\ tasks[last.req.args.task_id].company_id = "c1"
    /\ tasks[last.req.args.task_id].status = "done"
    /\ tasks[last.req.args.task_id].updated_at = "d2"
    /\ \E w \in 1..Len(last.writes) :
          /\ last.writes[w].op = "update"
          /\ last.writes[w].coll = "tasks"
          /\ last.writes[w].before.status = "todo"

TaskOps == {"create_task", "update_task", "delete_task"}

\* the event and the Firestore write of a task route
EventOf(op) ==
    CASE op = "create_task" -> "task_created"
      [] op = "update_task" -> "task_updated"
      [] op = "delete_task" -> "task_deleted"

WriteOf(op) ==
    CASE op = "create_task" -> "add"
      [] op = "update_task" -> "update"
      [] op = "delete_task" -> "delete"

TaskWrites(writes) == SelectSeq(writes, LAMBDA w : w.coll = "tasks")

\* the sprint of the task a write is about
SprintOfWrite(w) == IF w.op = "add" THEN w.doc.sprint_id ELSE w.before.sprint_id

\* a create_task without sprint_id or title
MissingFields(req) ==
    ~ (truthy(Get(BodyOf(req), "sprint_id", None)) /\ truthy(Get(BodyOf(req), "title", None)))

\* the events and the task writes of one request to a task route
EmitsWithWrite(op, out) ==
    LET done == TaskWrites(out.st.writes)
    IN  /\ out.status = 200 =>
              /\ Len(done) = 1
              /\ done[1].op = WriteOf(op)
              /\ Len(out.st.emitted) = 1
              /\ out.st.emitted[1].event = EventOf(op)
              /\ out.st.emitted[1].room = "sprint_" \o SprintOfWrite(done[1])
              /\ out.st.emitted[1].data.sprint_id = SprintOfWrite(done[1])
        /\ out.status # 200 =>
              /\ out.st.emitted = <<>>
              /\ done = <<>>
              /\ out.st.tasks = tasks

\* C19 as stated: create_task, update_task and delete_task emit task_created,
\* task_updated and task_deleted to room sprint_{sprint_id of the task} only in
\* a request whose Firestore write was done, exactly once in a successful
\* request, and nothing in a rejected one; a create_task without sprint_id or
\* title is answered 400, a request for an unknown task 404.
C19_AsStated ==
    \A op \in TaskOps : \A req \in ReqsOf(op), env \in EnvsOf(op) :
        LET out == Handle(op, Cur, req, env)
        IN  ~ out.st.full =>
            /\ EmitsWithWrite(op, out)
            /\ op # "create_task" /\ req.args.task_id \notin DOMAIN tasks => out.status = 404
            /\ op = "create_task" /\ MissingFields(req) => out.status = 400

\* C19: create_task, update_task and delete_task emit task_created, task_updated
\* and task_deleted to room sprint_{sprint_id of the task} only in a request
\* whose Firestore write was done, exactly once in a successful request, and a
\* request that is not successful emits nothing and writes no task.  400 is
\* answered only to a create_task without sprint_id or title, and to each whose
\* body is an object with an estimate int() accepts; 404 is answered only to a
\* request for an unknown task, and to each when there is a Firestore client
\* and, for update_task, the body is an object.
C19_TaskEvents ==
    \A op \in TaskOps : \A req \in ReqsOf(op), env \in EnvsOf(op) :
        LET out == Handle(op, Cur, req, env)
        IN  ~ out.st.full =>
            /\ EmitsWithWrite(op, out)
            /\ out.status = 400 => op = "create_task" /\ MissingFields(req)
            /\ out.status = 404 => op # "create_task" /\ req.args.task_id \notin DOMAIN tasks
            /\ db /\ op # "create_task" /\ req.args.task_id \notin DOMAIN tasks
                  /\ (op = "update_task" => req.json # Null)
                  => out.status = 404
            /\ op = "create_task" /\ req.json # Null /\ MissingFields(req)
                  /\ int(Get(req.json, "estimate", [int |-> 1])).ok
                  => out.status = 400

\* a task that was marked done was deleted, and the one event of the request
\* went to the room of its sprint
C19_Witness ==
    /\ last.op = "delete_task"
    /\ last.status = 200
    /\ Len(last.emitted) = 1
    /\ last.emitted[1].event = "task_deleted"
    /\ last.emitted[1].room = "sprint_sp1"
    /\ \E w \in 1..Len(last.writes) :
          last.writes[w].op = "delete" /\ last.writes[w].before.status = "done"

\* C20: without a Firestore client (db is None) get_teams, get_sprints,
\* complete_sprint, add_sprint_comment and submit_retrospective_feedback, once
\* the token is accepted, answer 503, write nothing and emit nothing;
\* create_sprint runs init_firestore first, answers 503 and creates no sprint
\* when that fails, and when it succeeds holds the client and serves the
\* request as it does with a client; api_health reports 'degraded' exactly when
\* db is None and 'healthy' otherwise.
C20_Degraded ==
    /\ ~ db =>
          \A op \in DegradedOps :
              \A req \in WithToken(DegradedReqs(op)), env \in DegradedEnvs(op) :
                  LET out == Handle(op, Cur, req, env)
                  IN  out.status = 503 /\ out.st = Cur
    /\ ~ db =>
          \A req \in WithToken(DegradedReqs("create_sprint")),
             env \in DegradedEnvs("create_sprint") :
              LET out == Handle("create_sprint", Cur, req, env)
                  held == Handle("create_sprint", [Cur EXCEPT !.db = TRUE], req, env)
              IN  IF env.firestore_up
                  THEN /\ out.status # 503
                       /\ out.st.db
                       /\ out.status = held.status
                       /\ out.body = held.body
                       /\ out.st.sprints = held.st.sprints
                       /\ out.st.emitted = held.st.emitted
                       /\ Tail(out.st.writes) = held.st.writes
                  ELSE out.status = 503 /\ out.st = Cur
    /\ \A req \in DegradedReqs("api_health"), env \in DegradedEnvs("api_health") :
          LET out == Handle("api_health", Cur, req, env)
          IN  /\ out.status = 200
              /\ out.body.status = IF db THEN "healthy" ELSE "degraded"
              /\ out.st = Cur

\* without a client a sprint was asked to be completed and the answer was 503,
\* with nothing written or emitted
C20_Witness ==
    /\ ~ db
    /\ last.op = "complete_sprint"
    /\ last.status = 503
    /\ last.writes = <<>>
    /\ last.emitted = <<>>
    /\ sprints = <<>>

\* what get_active_blockers reports in state s to a caller of the team: blocker
\* id -> status
ReportedIn(s, q, env) ==
    LET out == Handle("get_active_blockers", [s EXCEPT !.emitted = <<>>, !.writes = <<>>],
                      q, env)
        listed == IF out.status = 200 THEN out.body.blockers ELSE <<>>
    IN  [b \in {listed[n].id : n \in 1..Len(listed)} |->
            (CHOOSE n \in 1..Len(listed) : listed[n].id = b)]

StatusIn(s, q, env, b) ==
    LET out == Handle("get_active_blockers", [s EXCEPT !.emitted = <<>>, !.writes = <<>>],
                      q, env)
    IN  out.body.blockers[ReportedIn(s, q, env)[b]].status

\* the records of a collection that name blocker b
About(docs, b) == {i \in DOMAIN docs : Get(docs[i], "blocker_id", None) = b}

\* C21: after resolve_blocker succeeds for blocker B, get_active_blockers
\* reports 'resolved' for B and, for every other blocker, the other blockers of
\* the same standup included, the status it reported before; a blocker with a
\* resolution and an escalation record is reported 'resolved', one with neither
\* 'active'.
C21_ResolveFrame ==
    /\ \A req \in WithToken(DerivedReqs("resolve_blocker")),
          env \in DerivedEnvs("resolve_blocker") :
          LET out == Handle("resolve_blocker", Cur, req, env)
              B == req.args.blocker_id
          IN  out.status = 200 /\ ~ out.st.full =>
                 \A q \in WithToken(DerivedReqs("get_active_blockers")) :
                     /\ DOMAIN ReportedIn(out.st, q, env) = DOMAIN ReportedIn(Cur, q, env)
                     /\ \A b \in DOMAIN ReportedIn(Cur, q, env) :
                           StatusIn(out.st, q, env, b)
                              = IF b = B THEN "resolved" ELSE StatusIn(Cur, q, env, b)
    /\ \A q \in WithToken(DerivedReqs("get_active_blockers")),
          env \in DerivedEnvs("get_active_blockers") :
          \A b \in DOMAIN ReportedIn(Cur, q, env) :
              /\ About(blocker_resolutions, b) # {} /\ About(blocker_escalations, b) # {}
                    => StatusIn(Cur, q, env, b) = "resolved"
              /\ About(blocker_resolutions, b) = {} /\ About(blocker_escalations, b) = {}
                    => StatusIn(Cur, q, env, b) = "active"

\* C22: in every reachable state, after any sequence of create_team, join_team,
\* leave_team, add_team_member, remove_team_member and role updates, the
\* owner_id of every team is an element of its members.
C22_OwnerIsMember ==
    \A t \in DOMAIN teams : IsMember(teams[t], OwnerOf(t))

\* the owner of the created team t3 has asked to remove the owner, after another
\* user became a member of t3
C22_Witness ==
    /\ last.op = "remove_team_member"
    /\ last.status = 400
    /\ last.req.args.team_id = "t3"
    /\ "t3" \in DOMAIN teams
    /\ last.req.args.member_id = OwnerOf("t3")
    /\ Len(teams["t3"].members) > 1

\* the step just taken is a complete_sprint of sprint i that answered 200
Completes(i) ==
    /\ last'.op = "complete_sprint"
    /\ last'.status = 200
    /\ last'.req.args.sprint_id = i

\* final_analytics as complete_sprint computes it from the tasks that sprint i
\* has now
Recomputed(i, fa) ==
    LET ts == TasksOf(i)
        done == {k \in ts : StatusOf(k) = "done"}
    IN  /\ fa.total_tasks = Cardinality(ts)
        /\ fa.total_story_points = Sum([k \in ts |-> PointsOf(k)], ts)
        /\ fa.completed_story_points = Sum([k \in done |-> PointsOf(k)], done)
        /\ fa.velocity = fa.completed_story_points
        /\ \A st \in {"todo", "in_progress", "done"} :
              fa.task_counts[st] = Cardinality({k \in ts : StatusOf(k) = st})

SprintStep ==
    /\ \A i \in (DOMAIN sprints') \ (DOMAIN sprints) : sprints'[i].status = "active"
    /\ \A i \in (DOMAIN sprints) \cap (DOMAIN sprints') :
          sprints[i].status = "completed" =>
              /\ sprints'[i].status = "completed"
              /\ IF Completes(i)
                 THEN /\ Recomputed(i, sprints'[i].final_analytics)
                      /\ tasks' = tasks
                 ELSE sprints'[i] = sprints[i]

C24_JoinedAndLeft ==
    \A u \in Racers :
        /\ inflight[u].done = "teams_join_team" => IsMember(teams["t1"], u)
        /\ inflight[u].done = "teams_leave_team" => ~ IsMember(teams["t1"], u)

====
